---- MODULE Spec2Model ----
(***************************************************************************)
(* A model of bevy_peacock: the per-frame style cascade (update_styles),   *)
(* the selector matcher and its change detection, the UpdateComputedStyle  *)
(* command, and the transition engine (TransitionState, AnimatedLayoutProp,*)
(* animate_layout, animate_transforms), scheduled as PeacockPlugin does.   *)
(*                                                                         *)
(* f32 values are fixed-point numbers: a transition clock c stands for     *)
(* c / ClockDen, an eased progress t for t / TDen, a pixel length or a     *)
(* scale factor for itself; an interpolation rounds down.  A second is one *)
(* duration unit.                                                          *)
(***************************************************************************)
EXTENDS Integers, Sequences, FiniteSets, TLC

VARIABLES
    palette,            \* the style lists the application assigns to elements
    parent,             \* entity -> its Parent component (0: none, a root)
    elementStyles,      \* entity -> Option<ElementStyles>: <<>> or <<sheet names>>
    stylesChanged,      \* entity -> Ref<ElementStyles>::is_changed() as update_styles sees it
    classes,            \* entity -> Option<ElementClasses>: <<>> or <<set of names>>
    classesChanged,     \* entity -> Ref<ElementClasses>::is_changed()
    text,               \* entity -> Option<Text>: <<>> or <<[color, font_size, font]>>
    textChanged,        \* entity -> Ref<Text>::is_changed()
    textStyles,         \* entity -> Option<TextStyles>, the cached inherited text styles
    style,              \* entity -> Style (the layout properties of LayoutProps)
    animatedLayout,     \* entity -> AnimatedLayout map (empty: no component)
    transform,          \* entity -> Transform (its scale.x)
    animatedTransform,  \* entity -> Option<AnimatedTransform>
    zIndex,             \* entity -> Option<ZIndex>
    focus,              \* Res<Focus> (0: None)
    focus_prev,         \* Res<PreviousFocus>
    hover,              \* HoverMap[PointerId::Mouse] (0: nothing hovered)
    hover_prev,         \* PreviousHoverMap
    commands,           \* the Commands queue written by update_styles
    ran,                \* the systems of PeacockSystemSet that ran in this frame
    delta,              \* Time::delta_seconds() of this frame
    obs,                \* what the last cascade pass computed (for the properties)
    last,               \* the last operation and its inputs (for the properties)
    events              \* number of external input changes so far

vars == <<palette, zIndex, parent, elementStyles, stylesChanged, classes, classesChanged, text,
          textChanged, textStyles, style, animatedLayout, transform,
          animatedTransform, focus, focus_prev, hover, hover_prev, commands,
          ran, delta, obs, last, events>>

-----------------------------------------------------------------------------
(* Bounds and sample inputs *)

\* Denominator of the fixed-point transition clock.
ClockDen == 2
\* Denominator of the fixed-point eased progress (ClockDen cubed: cubics are exact).
TDen == 8

\* The largest frame delta, in duration units.
MaxDelta == 2
\* The largest pixel length a stylesheet declares.
PxHi == 8
\* The number of external input changes (class, focus, hover, text, style list) in a run.
MaxEvents == 2

Deltas == 0..MaxDelta
Durations == {0, 1, 2}
Timings == {"linear", "ease-in", "ease-out", "ease-in-out"}
LayoutProps == {"Width"}

None == <<>>
Some(x) == <<x>>
IsSome(o) == o # <<>>
Unwrap(o) == o[1]
UnwrapOr(o, d) == IF o = <<>> THEN d ELSE o[1]

Min(a, b) == IF a < b THEN a ELSE b
Max(a, b) == IF a > b THEN a ELSE b
\* The longest duration: time a transition has run is counted up to it.
MaxDuration == CHOOSE d \in Durations : \A x \in Durations : x <= d

\* ui::ZIndex
Local(n) == [k |-> "Local", v |-> n]
Global(n) == [k |-> "Global", v |-> n]

\* ui::Val
Px(v) == [k |-> "Px", v |-> v]
Auto == [k |-> "Auto", v |-> 0]

Entities == DOMAIN parent

-----------------------------------------------------------------------------
(* transition.rs *)

\* cos(pi * clock / ClockDen) * ClockDen on the clock grid 0, 1/2, 1.
CosPi(clock) ==
    CASE clock = 0 -> ClockDen
      [] 2 * clock = ClockDen -> 0
      [] clock = ClockDen -> -ClockDen

\* TimingFunction::eval of the four built-in timing functions.
eval(timing, clock) ==
    CASE timing = "linear" -> (clock * TDen) \div ClockDen
      [] timing = "ease-in" ->
            (clock * clock * clock * TDen) \div (ClockDen * ClockDen * ClockDen)
      [] timing = "ease-out" ->
            TDen - (((ClockDen - clock) * (ClockDen - clock) * (ClockDen - clock) * TDen)
                        \div (ClockDen * ClockDen * ClockDen))
      [] timing = "ease-in-out" -> (TDen * (ClockDen - CosPi(clock))) \div (2 * ClockDen)

\* Transition { property, delay, duration, timing }
Transition(property, duration, timing) ==
    [property |-> property, delay |-> 0, duration |-> duration, timing |-> timing]

\* f32::clamp(0., 1.) of a clock.
clamp(c) == Max(0, Min(ClockDen, c))

advance_without_snap(state, d) ==
    IF state.transition.duration > 0
    THEN [state EXCEPT !.clock = clamp(state.clock + (d * ClockDen) \div state.transition.duration)]
    ELSE state

\* TransitionState::advance
advance(state, d) ==
    IF state.transition.duration > 0
    THEN [state EXCEPT !.clock = clamp(state.clock + (d * ClockDen) \div state.transition.duration)]
    ELSE [state EXCEPT !.clock = ClockDen]

-----------------------------------------------------------------------------
(* animate.rs: AnimatedLayoutProp *)

Lerp_swapped(origin, target, t) == (origin * t + target * (TDen - t)) \div TDen

\* target * t + origin * (1 - t)
Lerp(origin, target, t) == (target * t + origin * (TDen - t)) \div TDen

\* AnimatedLayoutProp::new
AnimatedLayoutProp_new(state) == [state |-> state, origin |-> 0, target |-> 0]

\* The transition properties that are not layout properties of Style: the
\* `Invalid style transition prop` arms.
InvalidProps == {"Transform", "BackgroundColor", "BorderColor"}

\* AnimatedLayoutProp::update without the comparison: it writes on every call.
update_forced(ap, prop, st, d, force) ==
    LET state == advance(ap.state, d)
        t == eval(state.transition.timing, state.clock)
    IN  [ap |-> [ap EXCEPT !.state = state],
         style |-> IF prop \notin InvalidProps
                   THEN [st EXCEPT ![prop] = Px(Lerp(ap.origin, ap.target, t))]
                   ELSE st,
         wrote |-> prop \notin InvalidProps,
         panicked |-> prop \in InvalidProps]

\* AnimatedLayoutProp::update: the prop after the call, the Style after the call,
\* whether the Style was written and whether the call panicked.  t_old is the
\* clock, t the eased progress; the match on prop is inside the `if`.
update(ap, prop, st, d, force) ==
    LET t_old == ap.state.clock
        state == advance(ap.state, d)
        t == eval(state.transition.timing, state.clock)
        write == (t * ClockDen # t_old * TDen) \/ force
    IN  [ap |-> [ap EXCEPT !.state = state],
         style |-> IF write /\ prop \notin InvalidProps
                   THEN [st EXCEPT ![prop] = Px(Lerp(ap.origin, ap.target, t))]
                   ELSE st,
         wrote |-> write /\ prop \notin InvalidProps,
         panicked |-> write /\ prop \in InvalidProps]

\* AnimatedLayoutProp::restart_if_changed, its first match: the call panics
\* before it reads or changes anything.
restart_if_changed_panics(prop) == prop \in InvalidProps

\* AnimatedLayoutProp::restart_if_changed
restart_if_changed(ap, prop, prev_style, next_style) ==
    LET next == next_style[prop]
        prev == prev_style[prop]
    IN  IF next.k = "Px" /\ prev.k = "Px" /\ ap.target # next.v
        THEN [ap EXCEPT !.origin = prev.v, !.target = next.v, !.state.clock = 0]
        ELSE ap

-----------------------------------------------------------------------------
(* selector.rs: a Selector is <<"Accept">>, <<"Class", name, next>>,          *)
(* <<"Either", <<option, ...>>>> or <<variant, next>>.                        *)

Accept == <<"Accept">>
Class(name, next) == <<"Class", name, next>>
Hover(next) == <<"Hover", next>>
Focus(next) == <<"Focus", next>>
FocusWithin(next) == <<"FocusWithin", next>>
FocusVisible(next) == <<"FocusVisible", next>>
FirstChild(next) == <<"FirstChild", next>>
LastChild(next) == <<"LastChild", next>>
Current(next) == <<"Current", next>>
Parent(next) == <<"Parent", next>>
Either(opts) == <<"Either", opts>>

SetMax(S, d) == IF S = {} THEN d ELSE CHOOSE x \in S : \A y \in S : y <= x

RECURSIVE depth_from_zero(_)
\* Selector::depth with Accept counted as 0.
depth_from_zero(sel) ==
    CASE sel[1] = "Accept" -> 0
      [] sel[1] = "Class" -> depth_from_zero(sel[3])
      [] sel[1] = "Parent" -> depth_from_zero(sel[2]) + 1
      [] sel[1] = "Either" -> SetMax({depth_from_zero(sel[2][i]) : i \in DOMAIN sel[2]}, 0)
      [] OTHER -> depth_from_zero(sel[2])

RECURSIVE depth(_)
\* Selector::depth
depth(sel) ==
    CASE sel[1] = "Accept" -> 1
      [] sel[1] = "Class" -> depth(sel[3])
      [] sel[1] = "Parent" -> depth(sel[2]) + 1
      [] sel[1] = "Either" -> SetMax({depth(sel[2][i]) : i \in DOMAIN sel[2]}, 0)
      [] OTHER -> depth(sel[2])

RECURSIVE uses_hover(_)
\* Selector::uses_hover
uses_hover(sel) ==
    CASE sel[1] = "Accept" -> FALSE
      [] sel[1] = "Class" -> uses_hover(sel[3])
      [] sel[1] = "Hover" -> TRUE
      [] sel[1] = "Either" -> \E i \in DOMAIN sel[2] : uses_hover(sel[2][i])
      [] OTHER -> uses_hover(sel[2])

\* Selector::uses_focus_within: every arm but FocusWithin recurses into uses_hover.
uses_focus_within(sel) ==
    CASE sel[1] = "Accept" -> FALSE
      [] sel[1] = "Class" -> uses_hover(sel[3])
      [] sel[1] = "FocusWithin" -> TRUE
      [] sel[1] = "Either" -> \E i \in DOMAIN sel[2] : uses_hover(sel[2][i])
      [] OTHER -> uses_hover(sel[2])

-----------------------------------------------------------------------------
(* Style lists.  A StyleProp is [p |-> name, v |-> value]; a StylePropList  *)
(* is [props |-> <<StyleProp>>, selectors |-> << <<Selector, <<StyleProp>>>> >>]. *)

StyleProp(p, v) == [p |-> p, v |-> v]
StylePropList(props, selectors) == [props |-> props, selectors |-> selectors]

\* The selectors of the style lists attached to an element.
SelectorsOf(styles) ==
    UNION {{styles[i].selectors[j][1] : j \in DOMAIN styles[i].selectors} : i \in DOMAIN styles}

\* ElementStyles::selector_depth, uses_hover, uses_focus_within: cached when the
\* style list is assigned.
selector_depth(styles) == SetMax({depth(s) : s \in SelectorsOf(styles)}, 0)
es_uses_hover(styles) == \E s \in SelectorsOf(styles) : uses_hover(s)
es_uses_focus_within(styles) == \E s \in SelectorsOf(styles) : uses_focus_within(s)

-----------------------------------------------------------------------------
(* selector_matcher.rs *)

\* Children component: the entities whose Parent is p, in entity order.
ChildSet(p) == {c \in Entities : parent[c] = p}
RECURSIVE SortedSeq(_)
SortedSeq(S) ==
    IF S = {} THEN <<>>
    ELSE LET m == CHOOSE x \in S : \A y \in S : x <= y
         IN  <<m>> \o SortedSeq(S \ {m})
Children(p) == SortedSeq(ChildSet(p))

RECURSIVE is_descendant(_, _)
\* SelectorMatcher::is_descendant
is_descendant(e, ancestor) ==
    IF e = ancestor THEN TRUE
    ELSE IF parent[e] # 0 THEN is_descendant(parent[e], ancestor)
    ELSE FALSE

\* is_hovering / was_hovering (feature bevy_mod_picking)
is_hovering(e) == hover # 0 /\ is_descendant(hover, e)
was_hovering(e) == hover_prev # 0 /\ is_descendant(hover_prev, e)
is_focused(e) == focus = e
is_focus_within(e) == focus # 0 /\ is_descendant(focus, e)
is_focus_visible(e) == focus = e
was_focused(e) == focus_prev = e
was_focus_within(e) == focus_prev # 0 /\ is_descendant(focus_prev, e)
was_focus_visible(e) == focus_prev = e

is_first_child_unguarded(e) ==
    Children(parent[e]) # <<>> /\ Children(parent[e])[1] = e

\* SelectorMatcher::is_first_child / is_last_child
is_first_child(e) ==
    parent[e] # 0 /\ Children(parent[e]) # <<>> /\ Children(parent[e])[1] = e
is_last_child(e) ==
    parent[e] # 0 /\ Children(parent[e]) # <<>>
        /\ Children(parent[e])[Len(Children(parent[e]))] = e

RECURSIVE selector_match(_, _)
selector_match_parent_in_place(sel, e) ==
    CASE sel[1] = "Accept" -> TRUE
      [] sel[1] = "Class" ->
            IsSome(classes[e]) /\ sel[2] \in Unwrap(classes[e]) /\ selector_match(sel[3], e)
      [] sel[1] = "Hover" -> is_hovering(e) /\ selector_match(sel[2], e)
      [] sel[1] = "Focus" -> is_focused(e) /\ selector_match(sel[2], e)
      [] sel[1] = "FocusWithin" -> is_focus_within(e) /\ selector_match(sel[2], e)
      [] sel[1] = "FocusVisible" -> is_focus_visible(e) /\ selector_match(sel[2], e)
      [] sel[1] = "FirstChild" -> is_first_child(e) /\ selector_match(sel[2], e)
      [] sel[1] = "LastChild" -> is_last_child(e) /\ selector_match(sel[2], e)
      [] sel[1] = "Current" -> selector_match(sel[2], e)
      [] sel[1] = "Parent" -> parent[e] # 0 /\ selector_match(sel[2], e)
      [] sel[1] = "Either" -> \E i \in DOMAIN sel[2] : selector_match(sel[2][i], e)

\* SelectorMatcher::selector_match
selector_match(sel, e) ==
    CASE sel[1] = "Accept" -> TRUE
      [] sel[1] = "Class" ->
            IsSome(classes[e]) /\ sel[2] \in Unwrap(classes[e]) /\ selector_match(sel[3], e)
      [] sel[1] = "Hover" -> is_hovering(e) /\ selector_match(sel[2], e)
      [] sel[1] = "Focus" -> is_focused(e) /\ selector_match(sel[2], e)
      [] sel[1] = "FocusWithin" -> is_focus_within(e) /\ selector_match(sel[2], e)
      [] sel[1] = "FocusVisible" -> is_focus_visible(e) /\ selector_match(sel[2], e)
      [] sel[1] = "FirstChild" -> is_first_child(e) /\ selector_match(sel[2], e)
      [] sel[1] = "LastChild" -> is_last_child(e) /\ selector_match(sel[2], e)
      [] sel[1] = "Current" -> selector_match(sel[2], e)
      [] sel[1] = "Parent" -> parent[e] # 0 /\ selector_match(sel[2], parent[e])
      [] sel[1] = "Either" -> \E i \in DOMAIN sel[2] : selector_match(sel[2][i], e)

\* The checks is_changed makes on one entity of the walk.
entity_changed(styles, e) ==
    IsSome(classes[e]) /\
        \/ es_uses_hover(styles) /\ is_hovering(e) # was_hovering(e)
        \/ is_focused(e) # was_focused(e)
        \/ is_focus_visible(e) # was_focus_visible(e)
        \/ es_uses_focus_within(styles) /\ is_focus_within(e) # was_focus_within(e)
        \/ classesChanged[e]

RECURSIVE ancestors_changed(_, _, _)
\* The loop of is_changed: n iterations are left, e is the entity looked at.
ancestors_changed(styles, e, n) ==
    IF n = 0 THEN FALSE
    ELSE IF entity_changed(styles, e) THEN TRUE
    ELSE IF parent[e] # 0 THEN ancestors_changed(styles, parent[e], n - 1)
    ELSE FALSE

\* SelectorMatcher::is_changed
is_changed(entity) ==
    LET styles == Unwrap(elementStyles[entity])
    IN  \/ stylesChanged[entity]
        \/ selector_depth(styles) > 0 /\ ancestors_changed(styles, entity, selector_depth(styles))

-----------------------------------------------------------------------------
(* computed.rs and the cascade of update.rs *)

\* TextStyles::default()
TextStyles_default == [font |-> None, font_size |-> None, color |-> None]

\* ComputedStyle::new(): the fields the model follows
ComputedStyle_new ==
    [style |-> [p \in LayoutProps |-> Auto],
     color |-> None, font_size |-> None, font |-> None, font_handle |-> None,
     scale_x |-> None, z_index |-> Local(0), transitions |-> <<>>]

\* StyleProp::apply: one property written into the ComputedStyle.
apply_prop(computed, prop) ==
    CASE prop.p = "Color" -> [computed EXCEPT !.color = prop.v]
      [] prop.p = "FontSize" -> [computed EXCEPT !.font_size = Some(prop.v)]
      [] prop.p = "Font" -> [computed EXCEPT !.font = prop.v]
      [] prop.p = "ScaleX" -> [computed EXCEPT !.scale_x = Some(prop.v)]
      [] prop.p = "Transition" -> [computed EXCEPT !.transitions = prop.v]
      [] prop.p \in LayoutProps -> [computed EXCEPT !.style[prop.p] = prop.v]

RECURSIVE apply_props(_, _, _)
apply_props(computed, props, i) ==
    IF i > Len(props) THEN computed
    ELSE apply_props(apply_prop(computed, props[i]), props, i + 1)

RECURSIVE apply_selectors(_, _, _, _)
apply_selectors(computed, selectors, e, i) ==
    IF i > Len(selectors) THEN computed
    ELSE apply_selectors(
            IF selector_match(selectors[i][1], e)
            THEN apply_props(computed, selectors[i][2], 1)
            ELSE computed,
            selectors, e, i + 1)

\* StylePropList::apply_to: the unconditional props in order, then the props of
\* every selector that matches, in order.
apply_to(ss, computed, e) ==
    apply_selectors(apply_props(computed, ss.props, 1), ss.selectors, e, 1)

RECURSIVE apply_lists(_, _, _, _)
\* for ss in element_styles.styles.iter() { ss.apply_to(...) }
apply_lists(computed, styles, e, i) ==
    IF i > Len(styles) THEN computed
    ELSE apply_lists(apply_to(styles[i], computed, e), styles, e, i + 1)

\* assets.load(font_path): the handle of a path is the path.
load_font(computed) ==
    IF IsSome(computed.font)
    THEN [computed EXCEPT !.font_handle = computed.font]
    ELSE computed

\* The ComputedStyle update_element_styles builds for an entity.
compute(e, inherited) ==
    LET c0 == [ComputedStyle_new EXCEPT !.style = style[e],
                                        !.font_handle = inherited.font,
                                        !.font_size = inherited.font_size,
                                        !.color = inherited.color]
    IN  IF IsSome(elementStyles[e])
        THEN load_font(apply_lists(c0, Unwrap(elementStyles[e]), e, 1))
        ELSE c0

text_styles_of(computed) ==
    [font |-> computed.font_handle, font_size |-> computed.font_size, color |-> computed.color]

\* The body of update_element_styles for one entity, before its children are
\* visited: the text styles handed to the children, the flag handed to them, the
\* commands queued, whether a ComputedStyle was built, and what is_changed said.
visit(e, inherited, inherited_styles_changed) ==
    LET elt == elementStyles[e]
        prev_text_styles == textStyles[e]
        txt == text[e]
        detected == IsSome(elt) /\ is_changed(e)
        changed0 == detected \/ (IsSome(txt) /\ textChanged[e])
    IN  IF changed0 \/ inherited_styles_changed
        THEN LET computed == compute(e, inherited)
                 text_styles == text_styles_of(computed)
                 same == text_styles = inherited /\ ~IsSome(txt)
                 isc == IF same THEN IsSome(prev_text_styles)
                        ELSE prev_text_styles # Some(text_styles)
                 changed == changed0 \/ isc
                 cache == IF ~isc THEN <<>>
                          ELSE IF same THEN <<[cmd |-> "remove_text_styles", entity |-> e]>>
                          ELSE <<[cmd |-> "insert_text_styles", entity |-> e,
                                  text_styles |-> text_styles]>>
                 upd == IF changed
                        THEN <<[cmd |-> "update_computed_style", entity |-> e,
                                computed |-> computed]>>
                        ELSE <<>>
             IN  [text_styles |-> text_styles, inherited_styles_changed |-> isc,
                  cmds |-> cache \o upd, recomputed |-> TRUE, changed |-> detected]
        ELSE [text_styles |-> IF IsSome(prev_text_styles) THEN Unwrap(prev_text_styles)
                              ELSE inherited,
              inherited_styles_changed |-> inherited_styles_changed,
              cmds |-> <<>>, recomputed |-> FALSE, changed |-> detected]

RECURSIVE update_element_styles(_, _, _, _)
RECURSIVE update_children(_, _, _, _, _)

\* update_element_styles: acc collects the commands and what each visit saw.
update_element_styles(acc, e, inherited, inherited_styles_changed) ==
    LET v == visit(e, inherited, inherited_styles_changed)
        acc1 == [commands |-> acc.commands \o v.cmds,
                 seen |-> [acc.seen EXCEPT ![e] = v.text_styles],
                 recomputed |-> IF v.recomputed THEN acc.recomputed \cup {e} ELSE acc.recomputed,
                 changed |-> IF v.changed THEN acc.changed \cup {e} ELSE acc.changed]
    IN  update_children(acc1, Children(e), 1, v.text_styles, v.inherited_styles_changed)

update_children(acc, kids, i, text_styles, inherited_styles_changed) ==
    IF i > Len(kids) THEN acc
    ELSE update_children(
            update_element_styles(acc, kids[i], text_styles, inherited_styles_changed),
            kids, i + 1, text_styles, inherited_styles_changed)

\* update_styles: every root, with the default text styles and the flag false.
update_styles ==
    update_children(
        [commands |-> <<>>, seen |-> [e \in Entities |-> TextStyles_default],
         recomputed |-> {}, changed |-> {}],
        Children(0), 1, TextStyles_default, FALSE)

-----------------------------------------------------------------------------
(* update_computed.rs: UpdateComputedStyle::apply on a world w, a record of   *)
(* the components a command can write.                                        *)

\* Transform::scale.x of 1.0
ScaleOne == 8

World ==
    [style |-> style, animatedLayout |-> animatedLayout, text |-> text,
     textChanged |-> textChanged, textStyles |-> textStyles,
     transform |-> transform, animatedTransform |-> animatedTransform, zIndex |-> zIndex]

is_animated_layout(computed) ==
    \E i \in DOMAIN computed.transitions : computed.transitions[i].property \in LayoutProps
is_animated_transform(computed) ==
    \E i \in DOMAIN computed.transitions : computed.transitions[i].property = "Transform"

\* The transition of a property a HashMap built from the list keeps: the last one.
LastTransition(transitions, prop) ==
    transitions[SetMax({i \in DOMAIN transitions : transitions[i].property = prop}, 0)]
\* transitions.iter().find(..): the first one.
FirstTransition(transitions, prop) ==
    transitions[CHOOSE i \in DOMAIN transitions :
                    /\ transitions[i].property = prop
                    /\ \A j \in DOMAIN transitions : transitions[j].property = prop => i <= j]

\* The existing AnimatedLayout: every prop is retargeted, then force-updated.
\* Each prop reads and writes only its own Style field.
retarget_layout(anim, prev_style, next_style) ==
    LET r(p) == update(restart_if_changed(anim[p], p, prev_style, next_style),
                       p, next_style, 0, TRUE)
    IN  [anim |-> [p \in DOMAIN anim |-> r(p).ap],
         style |-> [p \in DOMAIN next_style |->
                        IF p \in DOMAIN anim THEN r(p).style[p] ELSE next_style[p]]]

\* The new AnimatedLayout without the match on the property: one prop per
\* transition.
create_layout_unfiltered(transitions, next_style) ==
    LET props == {transitions[i].property : i \in DOMAIN transitions}
        r(p) == update(AnimatedLayoutProp_new(
                            [transition |-> LastTransition(transitions, p), clock |-> 0]),
                       p, next_style, 0, TRUE)
    IN  [anim |-> [p \in props |-> r(p).ap],
         style |-> [p \in DOMAIN next_style |->
                        IF p \in props THEN r(p).style[p] ELSE next_style[p]]]

\* No AnimatedLayout yet: one AnimatedLayoutProp per layout transition, clock 0,
\* force-updated.
create_layout(transitions, next_style) ==
    LET props == {transitions[i].property : i \in DOMAIN transitions} \cap LayoutProps
        r(p) == update(AnimatedLayoutProp_new(
                            [transition |-> LastTransition(transitions, p), clock |-> 0]),
                       p, next_style, 0, TRUE)
    IN  [anim |-> [p \in props |-> r(p).ap],
         style |-> [p \in DOMAIN next_style |->
                        IF p \in props THEN r(p).style[p] ELSE next_style[p]]]

apply_layout(w, e, computed) ==
    IF is_animated_layout(computed)
    THEN LET r == IF DOMAIN w.animatedLayout[e] # {}
                  THEN retarget_layout(w.animatedLayout[e], w.style[e], computed.style)
                  ELSE create_layout(computed.transitions, computed.style)
         IN  [w EXCEPT !.animatedLayout[e] = r.anim, !.style[e] = r.style]
    ELSE [w EXCEPT !.style[e] = computed.style]

\* The Text sections: color, font size and font; iter_mut() on the Mut<Text>
\* marks the component changed.
apply_text(w, e, computed) ==
    IF IsSome(w.text[e])
    THEN LET t0 == Unwrap(w.text[e])
             t1 == [t0 EXCEPT !.color = UnwrapOr(computed.color, "white")]
             t2 == IF IsSome(computed.font_size)
                   THEN [t1 EXCEPT !.font_size = computed.font_size] ELSE t1
             t3 == IF IsSome(computed.font_handle)
                   THEN [t2 EXCEPT !.font = computed.font_handle] ELSE t2
         IN  [w EXCEPT !.text[e] = Some(t3), !.textChanged[e] = TRUE]
    ELSE w

apply_transform(w, e, computed) ==
    LET target == UnwrapOr(computed.scale_x, ScaleOne)
    IN  IF is_animated_transform(computed)
        THEN LET transition == FirstTransition(computed.transitions, "Transform")
                 at == w.animatedTransform[e]
             IN  IF IsSome(at)
                 THEN IF Unwrap(at).target # target
                      THEN [w EXCEPT !.animatedTransform[e] =
                                Some([state |-> [transition |-> transition, clock |-> 0],
                                      origin |-> w.transform[e], target |-> target])]
                      ELSE w
                 ELSE [w EXCEPT !.animatedTransform[e] =
                            Some([state |-> [transition |-> transition, clock |-> 0],
                                  origin |-> target, target |-> target])]
        ELSE IF w.transform[e] # target
             THEN [w EXCEPT !.transform[e] = target]
             ELSE w

\* The ZIndex component: kept when it is the computed one, inserted over an
\* existing one for a nonzero Local or a Global, removed otherwise; nothing is
\* done when the entity has no ZIndex.
apply_z_index(w, e, computed) ==
    LET zi == computed.z_index
        zo == w.zIndex[e]
    IN  IF zi.k = "Local" /\ IsSome(zo) /\ Unwrap(zo).k = "Local"
                /\ zi.v # 0 /\ zi.v = Unwrap(zo).v THEN w
        ELSE IF zi.k = "Global" /\ IsSome(zo) /\ Unwrap(zo).k = "Global"
                /\ zi.v = Unwrap(zo).v THEN w
        ELSE IF zi.k = "Local" /\ IsSome(zo) /\ zi.v # 0
             THEN [w EXCEPT !.zIndex[e] = Some(Local(zi.v))]
        ELSE IF zi.k = "Global" /\ IsSome(zo)
             THEN [w EXCEPT !.zIndex[e] = Some(Global(zi.v))]
        ELSE IF IsSome(zo) THEN [w EXCEPT !.zIndex[e] = None]
        ELSE w

\* UpdateComputedStyle::apply
apply(w, e, computed) ==
    apply_z_index(
        apply_transform(apply_text(apply_layout(w, e, computed), e, computed), e, computed),
        e, computed)

\* One queued command.
apply_command(w, c) ==
    CASE c.cmd = "insert_text_styles" -> [w EXCEPT !.textStyles[c.entity] = Some(c.text_styles)]
      [] c.cmd = "remove_text_styles" -> [w EXCEPT !.textStyles[c.entity] = None]
      [] c.cmd = "update_computed_style" -> apply(w, c.entity, c.computed)

RECURSIVE apply_commands(_, _, _)
\* The queue, in order.
apply_commands(w, cmds, i) ==
    IF i > Len(cmds) THEN w ELSE apply_commands(apply_command(w, cmds[i]), cmds, i + 1)

-----------------------------------------------------------------------------
(* The reference the cascade is compared with: the text styles of a node      *)
(* computed from scratch, every ancestor recomputed, nothing cached.          *)

RECURSIVE Effective(_)
Effective(e) ==
    text_styles_of(compute(e, IF parent[e] = 0 THEN TextStyles_default
                              ELSE Effective(parent[e])))

\* The selectors of an entity's style lists that match it now.
Matched(e) ==
    IF IsSome(elementStyles[e])
    THEN {sel \in SelectorsOf(Unwrap(elementStyles[e])) : selector_match(sel, e)}
    ELSE {}

-----------------------------------------------------------------------------
(* plugin.rs: the frame.  First and PreUpdate set the time and the hover maps, *)
(* Update runs (update_styles, (update_focus, animate_transforms,             *)
(* animate_layout)).chain(), and the commands are applied when the schedule   *)
(* ends.  Inputs change between frames.                                       *)

\* animate_bg_colors and animate_border_colors have no entity to visit: apply
\* stops at todo!() before it inserts their components.
Group == {"update_focus", "animate_transforms", "animate_layout"}
Systems == {"update_styles"} \cup Group

Idle == ran = {}

Touch(o) == [o EXCEPT !.dirty = TRUE]

\* First and PreUpdate: Time is updated, the picking backend moves HoverMap to
\* PreviousHoverMap and writes the new HoverMap.
PreUpdate(d, h) ==
    /\ Idle
    /\ h # hover => events < MaxEvents
    /\ ran' = {"pre_update"}
    /\ delta' = d
    /\ hover_prev' = hover
    /\ hover' = h
    /\ events' = IF h # hover THEN events + 1 ELSE events
    /\ obs' = IF h # hover THEN Touch(obs) ELSE obs
    /\ last' = [op |-> "pre_update"]
    /\ UNCHANGED <<palette, zIndex, parent, elementStyles, stylesChanged, classes, classesChanged, text,
                   textChanged, textStyles, style, animatedLayout, transform,
                   animatedTransform, focus, focus_prev, commands>>

\* update_styles, the whole pass; it is the reader of the change ticks.
UpdateStyles ==
    /\ "pre_update" \in ran /\ "update_styles" \notin ran
    /\ LET r == update_styles
       IN  /\ commands' = r.commands
           /\ obs' = [passes |-> Min(obs.passes + 1, 2),
                      seen |-> r.seen,
                      recomputed |-> r.recomputed,
                      changed |-> r.changed,
                      matched |-> [e \in Entities |-> Matched(e)],
                      prevMatched |-> obs.matched,
                      kept |-> {e \in Entities : IsSome(elementStyles[e]) /\ ~stylesChanged[e]},
                      quiet |-> obs.passes > 0 /\ ~obs.dirty,
                      dirty |-> FALSE,
                      elapsed |-> obs.elapsed]
    /\ stylesChanged' = [e \in Entities |-> FALSE]
    /\ classesChanged' = [e \in Entities |-> FALSE]
    /\ textChanged' = [e \in Entities |-> FALSE]
    /\ ran' = ran \cup {"update_styles"}
    /\ last' = [op |-> "update_styles"]
    /\ UNCHANGED <<palette, zIndex, parent, elementStyles, classes, text, textStyles, style, animatedLayout,
                   transform, animatedTransform, focus, focus_prev, hover, hover_prev,
                   delta, events>>

RunsAfterStyles_unchained(sys) == sys \notin ran /\ "pre_update" \in ran

\* .chain(): a system of the group runs once update_styles has run.
RunsAfterStyles(sys) == sys \notin ran /\ "update_styles" \in ran

\* update_focus
UpdateFocus ==
    /\ RunsAfterStyles("update_focus")
    /\ focus_prev' = focus
    /\ ran' = ran \cup {"update_focus"}
    /\ last' = [op |-> "update_focus"]
    /\ UNCHANGED <<palette, zIndex, parent, elementStyles, stylesChanged, classes, classesChanged, text,
                   textChanged, textStyles, style, animatedLayout, transform,
                   animatedTransform, focus, hover, hover_prev, commands, delta, obs, events>>

\* a + (b - a) * s of Vec3::lerp
lerp(a, b, t) == a + ((b - a) * t) \div TDen

\* animate_transforms on one AnimatedTransform and its Transform
animate_transform(at, tr, d) ==
    LET t_old == at.state.clock
        state == advance(at.state, d)
        t == eval(state.transition.timing, state.clock)
    IN  [at |-> [at EXCEPT !.state = state],
         transform |-> IF t * ClockDen # t_old * TDen THEN lerp(at.origin, at.target, t) ELSE tr]

\* animate_transforms
AnimateTransforms ==
    /\ RunsAfterStyles("animate_transforms")
    /\ animatedTransform' =
            [e \in Entities |->
                IF IsSome(animatedTransform[e])
                THEN Some(animate_transform(Unwrap(animatedTransform[e]), transform[e], delta).at)
                ELSE None]
    /\ transform' =
            [e \in Entities |->
                IF IsSome(animatedTransform[e])
                THEN animate_transform(Unwrap(animatedTransform[e]), transform[e], delta).transform
                ELSE transform[e]]
    /\ ran' = ran \cup {"animate_transforms"}
    /\ last' = [op |-> "animate_transforms"]
    /\ UNCHANGED <<palette, zIndex, parent, elementStyles, stylesChanged, classes, classesChanged, text,
                   textChanged, textStyles, style, animatedLayout, focus, focus_prev,
                   hover, hover_prev, commands, delta, obs, events>>

\* animate_layout on one entity: update(prop, style, delta, false) for every prop.
animate_entity(anim, st, d) ==
    [anim |-> [p \in DOMAIN anim |-> update(anim[p], p, st, d, FALSE).ap],
     style |-> [p \in DOMAIN st |->
                    IF p \in DOMAIN anim THEN update(anim[p], p, st, d, FALSE).style[p]
                    ELSE st[p]]]

\* animate_layout
AnimateLayout ==
    /\ RunsAfterStyles("animate_layout")
    /\ animatedLayout' = [e \in Entities |-> animate_entity(animatedLayout[e], style[e], delta).anim]
    /\ style' = [e \in Entities |-> animate_entity(animatedLayout[e], style[e], delta).style]
    /\ ran' = ran \cup {"animate_layout"}
    /\ last' = [op |-> "animate_layout"]
    /\ obs' = [obs EXCEPT !.elapsed =
                    [e \in Entities |->
                        IF DOMAIN animatedLayout[e] # {}
                        THEN Min(obs.elapsed[e] + delta, MaxDuration)
                        ELSE obs.elapsed[e]]]
    /\ UNCHANGED <<palette, zIndex, parent, elementStyles, stylesChanged, classes, classesChanged, text,
                   textChanged, textStyles, transform, animatedTransform, focus, focus_prev,
                   hover, hover_prev, commands, delta, events>>

\* Entities whose layout prop an apply created or restarted: its clock is 0 again.
Restarted(w) ==
    {e \in Entities : \E p \in DOMAIN w.animatedLayout[e] :
        \/ p \notin DOMAIN animatedLayout[e]
        \/ w.animatedLayout[e][p].target # animatedLayout[e][p].target}

\* The end of the Update schedule: the queued commands are applied in order.
ApplyDeferred ==
    /\ ran = {"pre_update"} \cup Systems
    /\ LET w == apply_commands(World, commands, 1)
       IN  /\ style' = w.style
           /\ animatedLayout' = w.animatedLayout
           /\ text' = w.text
           /\ textChanged' = w.textChanged
           /\ textStyles' = w.textStyles
           /\ transform' = w.transform
           /\ animatedTransform' = w.animatedTransform
           /\ zIndex' = w.zIndex
           /\ last' = [op |-> "apply_deferred"]
           /\ obs' = [obs EXCEPT !.elapsed =
                        [e \in Entities |-> IF e \in Restarted(w) THEN 0 ELSE obs.elapsed[e]]]
    /\ commands' = <<>>
    /\ ran' = {}
    /\ UNCHANGED <<palette, parent, elementStyles, stylesChanged, classes, classesChanged, focus,
                   focus_prev, hover, hover_prev, delta, events>>

-----------------------------------------------------------------------------
(* Inputs: what the application does between frames. *)

\* ElementClasses is inserted or mutated (with_class_names, add_class, remove_class).
SetClasses(e, names) ==
    /\ Idle /\ events < MaxEvents
    /\ classes' = [classes EXCEPT ![e] = Some(names)]
    /\ classesChanged' = [classesChanged EXCEPT ![e] = TRUE]
    /\ events' = events + 1
    /\ obs' = Touch(obs)
    /\ last' = [op |-> "set_classes"]
    /\ UNCHANGED <<palette, zIndex, parent, elementStyles, stylesChanged, text, textChanged, textStyles, style,
                   animatedLayout, transform, animatedTransform, focus, focus_prev, hover,
                   hover_prev, commands, ran, delta>>

\* Res<Focus> is written.
SetFocus(f) ==
    /\ Idle /\ events < MaxEvents
    /\ f # focus
    /\ focus' = f
    /\ events' = events + 1
    /\ obs' = Touch(obs)
    /\ last' = [op |-> "set_focus"]
    /\ UNCHANGED <<palette, zIndex, parent, elementStyles, stylesChanged, classes, classesChanged, text,
                   textChanged, textStyles, style, animatedLayout, transform,
                   animatedTransform, focus_prev, hover, hover_prev, commands, ran, delta>>

\* The application mutates a Text component.
EditText(e) ==
    /\ Idle /\ events < MaxEvents
    /\ IsSome(text[e])
    /\ textChanged' = [textChanged EXCEPT ![e] = TRUE]
    /\ events' = events + 1
    /\ obs' = Touch(obs)
    /\ last' = [op |-> "edit_text"]
    /\ UNCHANGED <<palette, zIndex, parent, elementStyles, stylesChanged, classes, classesChanged, text,
                   textStyles, style, animatedLayout, transform, animatedTransform, focus,
                   focus_prev, hover, hover_prev, commands, ran, delta>>

\* ElementStyles is inserted or replaced (with_styles).
SetStyles(e, styles) ==
    /\ Idle /\ events < MaxEvents
    /\ elementStyles' = [elementStyles EXCEPT ![e] = Some(styles)]
    /\ stylesChanged' = [stylesChanged EXCEPT ![e] = TRUE]
    /\ events' = events + 1
    /\ obs' = Touch(obs)
    /\ last' = [op |-> "set_styles"]
    /\ UNCHANGED <<palette, zIndex, parent, classes, classesChanged, text, textChanged, textStyles, style,
                   animatedLayout, transform, animatedTransform, focus, focus_prev, hover,
                   hover_prev, commands, ran, delta>>

-----------------------------------------------------------------------------
(* The cascade specification: small trees, style lists without transitions. *)

ClassNames == {"a"}

ColorByClass ==
    StylePropList(<<>>, << <<Class("a", Accept), <<StyleProp("Color", Some("red"))>> >> >>)
Sized == StylePropList(<<StyleProp("FontSize", 20)>>, <<>>)
FocusColor ==
    StylePropList(<<>>, << <<Focus(Accept), <<StyleProp("Color", Some("blue"))>> >> >>)
HoverColor ==
    StylePropList(<<>>, << <<Hover(Accept), <<StyleProp("Color", Some("green"))>> >> >>)
ByParentClass ==
    StylePropList(<<>>, << <<Current(Parent(Class("a", Accept))),
                             <<StyleProp("Color", Some("red"))>> >> >>)

\* The style lists the application swaps in.
CascadeLists == {<<Sized>>, <<ColorByClass>>}

\* 1 > 2 > 3 > 4: a styled root with classes, a plain node, a node that sets a
\* font size, a text node.
SceneChain ==
    [parent |-> <<0, 1, 2, 3>>,
     styles |-> <<Some(<<ColorByClass>>), None, Some(<<Sized>>), None>>,
     classes |-> <<Some({}), None, None, None>>,
     text |-> {4},
     palette |-> CascadeLists]

\* 1 > {2, 3}: a root with classes, a focusable node without ElementClasses, a
\* text node with classes styled by hover and by its parent's class.
SceneFocus ==
    [parent |-> <<0, 1, 1>>,
     styles |-> <<None, Some(<<FocusColor>>), Some(<<HoverColor, ByParentClass>>)>>,
     classes |-> <<Some({}), None, Some({})>>,
     text |-> {3},
     palette |-> CascadeLists]

Scenes == {SceneChain, SceneFocus}

\* The world right after a scene is spawned: every component is newly added.
InitScene(sc) ==
    /\ palette = sc.palette
    /\ parent = sc.parent
    /\ elementStyles = sc.styles
    /\ stylesChanged = [e \in DOMAIN sc.parent |-> IsSome(sc.styles[e])]
    /\ classes = sc.classes
    /\ classesChanged = [e \in DOMAIN sc.parent |-> IsSome(sc.classes[e])]
    /\ text = [e \in DOMAIN sc.parent |->
                  IF e \in sc.text
                  THEN Some([color |-> "white", font_size |-> None, font |-> None])
                  ELSE None]
    /\ textChanged = [e \in DOMAIN sc.parent |-> e \in sc.text]
    /\ textStyles = [e \in DOMAIN sc.parent |-> None]
    /\ style = [e \in DOMAIN sc.parent |-> [p \in LayoutProps |-> Auto]]
    /\ animatedLayout = [e \in DOMAIN sc.parent |-> <<>>]
    /\ transform = [e \in DOMAIN sc.parent |-> ScaleOne]
    /\ animatedTransform = [e \in DOMAIN sc.parent |-> None]
    /\ zIndex = [e \in DOMAIN sc.parent |-> Some(Local(0))]
    /\ focus = 0 /\ focus_prev = 0 /\ hover = 0 /\ hover_prev = 0
    /\ commands = <<>>
    /\ ran = {}
    /\ delta = 0
    /\ obs = [passes |-> 0,
              seen |-> [e \in DOMAIN sc.parent |-> TextStyles_default],
              recomputed |-> {}, changed |-> {},
              matched |-> [e \in DOMAIN sc.parent |-> {}],
              prevMatched |-> [e \in DOMAIN sc.parent |-> {}],
              kept |-> {}, quiet |-> FALSE, dirty |-> FALSE,
              elapsed |-> [e \in DOMAIN sc.parent |-> 0]]
    /\ last = [op |-> "spawn"]
    /\ events = 0

Init == \E sc \in Scenes : InitScene(sc)

Inputs ==
    \/ \E e \in Entities : \E names \in SUBSET ClassNames :
            IsSome(classes[e]) /\ SetClasses(e, names)
    \/ \E f \in {0} \cup Entities : SetFocus(f)
    \/ \E e \in Entities : EditText(e)
    \/ \E e \in Entities : \E l \in palette : IsSome(elementStyles[e]) /\ SetStyles(e, l)

Frame ==
    \/ UpdateStyles
    \/ UpdateFocus
    \/ AnimateTransforms
    \/ AnimateLayout
    \/ ApplyDeferred

Next ==
    \/ Inputs
    \/ \E h \in {0} \cup Entities : PreUpdate(1, h)
    \/ Frame

Spec == Init /\ [][Next]_vars

-----------------------------------------------------------------------------
(* The transition specification: one styled node whose style list the         *)
(* application swaps between lists that set a width or a scale, with or       *)
(* without a transition on it.                                                *)

WidthValues == {Px(0), Px(PxHi), Auto}
ScaleValues == {ScaleOne, 2 * ScaleOne}

LayoutLists(tr) ==
    {<<StylePropList(<<StyleProp("Width", w)>> \o t, <<>>)>> :
        w \in WidthValues, t \in {<<>>, <<StyleProp("Transition", <<tr>>)>>}}

TransformLists(tr) ==
    {<<StylePropList(<<StyleProp("ScaleX", x)>> \o t, <<>>)>> :
        x \in ScaleValues, t \in {<<>>, <<StyleProp("Transition", <<tr>>)>>}}

Palettes ==
    {LayoutLists(Transition("Width", d, f)) : d \in Durations, f \in Timings}
        \cup {TransformLists(Transition("Transform", d, f)) : d \in Durations, f \in Timings}

SceneOne(lists, first) ==
    [parent |-> <<0>>, styles |-> <<Some(first)>>, classes |-> <<None>>, text |-> {},
     palette |-> lists]

InitAnim == \E lists \in Palettes : \E first \in lists : InitScene(SceneOne(lists, first))

NextAnim ==
    \/ \E l \in palette : SetStyles(1, l)
    \/ \E d \in Deltas : PreUpdate(d, hover)
    \/ Frame

SpecAnim == InitAnim /\ [][NextAnim]_vars

-----------------------------------------------------------------------------
(* The clock specification: the frames of the transition specification, and   *)
(* between frames direct calls of TransitionState::advance with any delta,    *)
(* negative ones included, on the transition states that exist.               *)

SignedDeltas == (0 - MaxDelta)..MaxDelta

\* anim.0.get_mut(&prop).state.advance(d) / animated_transform.state.advance(d)
CallAdvance(e, d) ==
    /\ Idle
    /\ DOMAIN animatedLayout[e] # {} \/ IsSome(animatedTransform[e])
    /\ animatedLayout' =
            [animatedLayout EXCEPT ![e] =
                [p \in DOMAIN animatedLayout[e] |->
                    [animatedLayout[e][p] EXCEPT !.state = advance(animatedLayout[e][p].state, d)]]]
    /\ animatedTransform' =
            [animatedTransform EXCEPT ![e] =
                IF IsSome(animatedTransform[e])
                THEN Some([Unwrap(animatedTransform[e]) EXCEPT
                                !.state = advance(Unwrap(animatedTransform[e]).state, d)])
                ELSE None]
    /\ delta' = d
    /\ last' = [op |-> "advance"]
    /\ UNCHANGED <<palette, zIndex, parent, elementStyles, stylesChanged, classes, classesChanged, text,
                   textChanged, textStyles, style, transform, focus, focus_prev, hover,
                   hover_prev, commands, ran, obs, events>>

NextClock ==
    \/ NextAnim
    \/ \E e \in Entities : \E d \in SignedDeltas : CallAdvance(e, d)

SpecClock == InitAnim /\ [][NextClock]_vars

-----------------------------------------------------------------------------
(* The steady specification: a node whose list declares a pixel width and a   *)
(* transition on it; the list is never changed, frames keep arriving with a   *)
(* positive delta.                                                            *)

SteadyLists ==
    {<<StylePropList(<<StyleProp("Width", Px(v)), StyleProp("Transition", <<Transition("Width", d, f)>>)>>,
                     <<>>)>> :
        v \in {0, PxHi}, d \in Durations, f \in Timings}

InitSteady == \E first \in SteadyLists : InitScene(SceneOne({first}, first))

NextSteady ==
    \/ \E d \in Deltas \ {0} : PreUpdate(d, hover)
    \/ Frame

SpecSteady == InitSteady /\ [][NextSteady]_vars /\ WF_vars(NextSteady)

-----------------------------------------------------------------------------
(* Properties of the cascade *)

\* C1: after any cascade pass every node hands its children the effective
\* inherited text values (font, font size, color) a full recomputation gives,
\* and once the commands of the pass are applied every text node shows the
\* effective color, whether or not the nodes in between cache a TextStyles.
C1_InheritedTextValuesCorrect ==
    /\ last.op = "update_styles" => \A e \in Entities : obs.seen[e] = Effective(e)
    /\ last.op = "apply_deferred" =>
            \A e \in Entities :
                IsSome(text[e]) => Unwrap(text[e]).color = UnwrapOr(Effective(e).color, "white")

\* C2: a cascade pass that follows an applied pass with no input change in
\* between is a no-op: is_changed is false for every node, no ComputedStyle is
\* built and no command is queued.
C2_CascadeIdempotent ==
    (last.op = "update_styles" /\ obs.quiet) =>
        /\ obs.changed = {}
        /\ obs.recomputed = {}
        /\ commands = <<>>

\* C9: in a pass where a node's style list is the one of the previous pass and
\* is_changed returns false, every selector attached to the node matches as it
\* did in the previous pass.
C9_ChangeDetectionExact ==
    (last.op = "update_styles" /\ obs.passes >= 2) =>
        \A e \in obs.kept : e \notin obs.changed => obs.matched[e] = obs.prevMatched[e]

-----------------------------------------------------------------------------
(* Properties of the transitions *)

\* The ComputedStyle of the queued UpdateComputedStyle command for e, if any.
QueuedFor(e) ==
    {commands[i].computed : i \in {j \in DOMAIN commands :
        commands[j].cmd = "update_computed_style" /\ commands[j].entity = e}}

\* The step that applies the queued commands.
IsFlush == ran = {"pre_update"} \cup Systems /\ ran' = {}
\* The steps of the two animation systems.
IsAnimateLayout == "animate_layout" \notin ran /\ "animate_layout" \in ran'
IsAnimateTransforms == "animate_transforms" \notin ran /\ "animate_transforms" \in ran'

\* C3: when UpdateComputedStyle is applied to a node that has a layout
\* transition for P with its clock strictly between 0 and 1 and the new pixel
\* target of P (the ComputedStyle still declares the transition) differs from
\* the stored target, afterwards origin is the value P had in Style, target is
\* the new value, clock is 0 and Style holds origin.
C3_RetargetMidFlight ==
    [][IsFlush =>
        \A e \in Entities : \A p \in DOMAIN animatedLayout[e] : \A c \in QueuedFor(e) :
            (/\ animatedLayout[e][p].state.clock \in 1..(ClockDen - 1)
             /\ is_animated_layout(c)
             /\ c.style[p].k = "Px"
             /\ c.style[p].v # animatedLayout[e][p].target)
            => /\ style[e][p].k = "Px"
               /\ animatedLayout'[e][p].origin = style[e][p].v
               /\ animatedLayout'[e][p].target = c.style[p].v
               /\ animatedLayout'[e][p].state.clock = 0
               /\ style'[e][p] = Px(animatedLayout'[e][p].origin)]_vars

\* What C3 says holds whenever Style holds a pixel value for P at the moment
\* of the change; it holds something else only after a ComputedStyle without
\* the transition was applied over the AnimatedLayout that C6 says is removed.
RetargetWhenDeclared ==
    [][IsFlush =>
        \A e \in Entities : \A p \in DOMAIN animatedLayout[e] : \A c \in QueuedFor(e) :
            (/\ animatedLayout[e][p].state.clock \in 1..(ClockDen - 1)
             /\ is_animated_layout(c)
             /\ style[e][p].k = "Px"
             /\ c.style[p].k = "Px"
             /\ c.style[p].v # animatedLayout[e][p].target)
            => /\ animatedLayout'[e][p].origin = style[e][p].v
               /\ animatedLayout'[e][p].target = c.style[p].v
               /\ animatedLayout'[e][p].state.clock = 0
               /\ style'[e][p] = Px(animatedLayout'[e][p].origin)]_vars

\* The width a style list declares.
Declared(e) == apply_lists(ComputedStyle_new, Unwrap(elementStyles[e]), e, 1)

\* C4: a node whose list declares a transition on Width and a pixel width v,
\* with frames arriving with positive delta and no input change, eventually
\* holds Width = Px(v) in its Style and keeps it.
C4_ReachesTarget ==
    \A e \in {1} : <>[](style[e]["Width"] = Declared(e).style["Width"])

\* C5: when a layout transition for P is first attached (the node has no
\* AnimatedLayout), the Style value of P after the apply is the pixel value the
\* cascade computed for P.
C5_FirstAttachWritesComputed ==
    [][IsFlush =>
        \A e \in Entities : \A c \in QueuedFor(e) : \A p \in LayoutProps :
            (/\ DOMAIN animatedLayout[e] = {}
             /\ \E i \in DOMAIN c.transitions : c.transitions[i].property = p
             /\ c.style[p].k = "Px")
            => style'[e][p] = c.style[p]]_vars

\* The transitions of the element's list, once the list has been cascaded and
\* no command for the element is pending: the ones last applied.
Settled(e) == IsSome(elementStyles[e]) /\ ~stylesChanged[e] /\ QueuedFor(e) = {}

\* C6: after applying a ComputedStyle whose transitions no longer contain P,
\* the node has no animation state for P (layout property or Transform), and
\* the animation systems no longer overwrite the value applied for P.
C6_TransitionStateRemoved ==
    [][/\ IsFlush =>
            \A e \in Entities : \A c \in QueuedFor(e) :
                /\ \A p \in LayoutProps :
                        (\A i \in DOMAIN c.transitions : c.transitions[i].property # p)
                            => p \notin DOMAIN animatedLayout'[e]
                /\ ~is_animated_transform(c) => animatedTransform'[e] = None
       /\ IsAnimateLayout =>
            \A e \in Entities :
                (Settled(e) /\ ~is_animated_layout(Declared(e))) => style'[e] = style[e]
       /\ IsAnimateTransforms =>
            \A e \in Entities :
                (Settled(e) /\ ~is_animated_transform(Declared(e))) => transform'[e] = transform[e]]_vars

\* The value update writes for a prop: target * t + origin * (1 - t).
Interpolated(ap) == Lerp(ap.origin, ap.target, eval(ap.state.transition.timing, ap.state.clock))

\* C7: for a transition with linear timing, duration d > 0, origin o and target
\* g that was advanced by non-negative deltas summing to e since it was created
\* or restarted, the clock is min(e/d, 1) and the interpolated value is
\* o + (g - o) * min(e/d, 1) (rounded down); it is the value Style holds while
\* the transition is declared.
C7_LinearInterpolation ==
    \A e \in Entities : \A p \in DOMAIN animatedLayout[e] :
        LET ap == animatedLayout[e][p]
            d == ap.state.transition.duration
            el == Min(obs.elapsed[e], d)
        IN  (ap.state.transition.timing = "linear" /\ d > 0) =>
                /\ ap.state.clock * d = el * ClockDen
                /\ Interpolated(ap) = (ap.origin * d + (ap.target - ap.origin) * el) \div d
                /\ (Settled(e) /\ is_animated_layout(Declared(e)))
                        => style[e][p] = Px((ap.origin * d + (ap.target - ap.origin) * el) \div d)

\* Half-way: duration 2, origin 0, target PxHi, one unit of time elapsed.
C7_Witness ==
    \E e \in Entities : \E p \in DOMAIN animatedLayout[e] :
        /\ animatedLayout[e][p].state.transition.timing = "linear"
        /\ animatedLayout[e][p].state.transition.duration = 2
        /\ animatedLayout[e][p].origin = 0
        /\ animatedLayout[e][p].target = PxHi
        /\ obs.elapsed[e] = 1
        /\ last.op = "animate_layout"
        /\ style[e][p] = Px(PxHi \div 2)

\* clamp(clock + delta / duration, 0, 1), or 1 when the duration is 0.
Advanced(state, d) ==
    IF state.transition.duration > 0
    THEN LET c == state.clock + (d * ClockDen) \div state.transition.duration
         IN  IF c < 0 THEN 0 ELSE IF c > ClockDen THEN ClockDen ELSE c
    ELSE ClockDen

ClocksInRange ==
    \A e \in Entities :
        /\ \A p \in DOMAIN animatedLayout[e] : animatedLayout[e][p].state.clock \in 0..ClockDen
        /\ IsSome(animatedTransform[e]) => Unwrap(animatedTransform[e]).state.clock \in 0..ClockDen

\* C8: in every reachable state every transition clock is in [0, 1]; an advance
\* by delta (positive, zero or negative) sets it to clamp(clock + delta /
\* duration, 0, 1), or to 1 when the duration is 0; every creation or restart of
\* a transition sets it to 0 (a layout prop is then advanced by 0 in the same
\* apply, by its forced update).
C8_ClockInUnitInterval ==
    /\ []ClocksInRange
    /\ [][\A e \in Entities :
            /\ \A p \in DOMAIN animatedLayout'[e] :
                /\ (p \in DOMAIN animatedLayout[e] /\ (last'.op = "advance" \/ IsAnimateLayout))
                        => animatedLayout'[e][p].state.clock
                                = Advanced(animatedLayout[e][p].state, delta')
                /\ (IsFlush /\ p \notin DOMAIN animatedLayout[e])
                        => animatedLayout'[e][p].state.clock
                                = Advanced([animatedLayout'[e][p].state EXCEPT !.clock = 0], 0)
                /\ (IsFlush /\ p \in DOMAIN animatedLayout[e]
                        /\ animatedLayout'[e][p].target # animatedLayout[e][p].target)
                        => animatedLayout'[e][p].state.clock
                                = Advanced([animatedLayout'[e][p].state EXCEPT !.clock = 0], 0)
            /\ IsSome(animatedTransform'[e]) =>
                /\ (IsSome(animatedTransform[e]) /\ (last'.op = "advance" \/ IsAnimateTransforms))
                        => Unwrap(animatedTransform'[e]).state.clock
                                = Advanced(Unwrap(animatedTransform[e]).state, delta')
                /\ (IsFlush /\ animatedTransform[e] = None)
                        => Unwrap(animatedTransform'[e]).state.clock = 0
                /\ (IsFlush /\ IsSome(animatedTransform[e])
                        /\ Unwrap(animatedTransform'[e]).target # Unwrap(animatedTransform[e]).target)
                        => Unwrap(animatedTransform'[e]).state.clock = 0]_vars

\* A negative advance that would leave the interval: the clock is 0.
C8_Witness ==
    /\ last.op = "advance"
    /\ delta = 0 - MaxDelta
    /\ \E e \in Entities : \E p \in DOMAIN animatedLayout[e] :
            /\ animatedLayout[e][p].state.transition.duration = 1
            /\ animatedLayout[e][p].state.clock = 0
            /\ animatedLayout[e][p].target = PxHi

-----------------------------------------------------------------------------
(* Properties of the schedule *)

IsPass == "update_styles" \notin ran /\ "update_styles" \in ran'
IsUpdateFocus == "update_focus" \notin ran /\ "update_focus" \in ran'

\* C10: in every frame update_styles completes before update_focus, and
\* update_focus completes before the frame ends, so before the next frame's
\* pass; PreviousFocus is written by update_focus only, with the focus current
\* then, and never during a cascade pass.
C10_FocusSnapshotOrder ==
    [][/\ IsUpdateFocus => "update_styles" \in ran
       /\ IsPass => ("update_focus" \notin ran /\ focus_prev' = focus_prev)
       /\ (ran # {} /\ ran' = {}) => "update_focus" \in ran
       /\ focus_prev' # focus_prev => (IsUpdateFocus /\ focus_prev' = focus)]_vars

\* The snapshot was just taken, after this frame's pass saw the focus move.
C10_Witness ==
    /\ last.op = "update_focus"
    /\ "update_styles" \in ran
    /\ focus # 0
    /\ focus_prev = focus
    /\ obs.passes = 2

-----------------------------------------------------------------------------
(* Selector matching as a function of the tree and the per-node state.      *)

\* The links a selector chain is built from, each wrapping the rest of the chain.
LinkSet(next) ==
    {Class("a", next), Hover(next), Focus(next), FocusWithin(next), FocusVisible(next),
     FirstChild(next), LastChild(next), Current(next), Parent(next)}
Chains1 == LinkSet(Accept)
Chains2 == UNION {LinkSet(s) : s \in Chains1}
Branches == {Accept, Class("a", Accept), Focus(Accept), Parent(Class("a", Accept)),
             Parent(Accept)}
\* The selectors matched: chains of up to two links, alone and behind `&`, tests
\* two levels up, and alternatives.
MatchSelectors ==
    {Accept} \cup Chains1 \cup Chains2
        \cup {Parent(Parent(s)) : s \in Chains1}
        \cup {Current(s) : s \in Chains2}
        \cup {Either(<<s, t>>) : s \in Branches, t \in Branches}
        \cup {Either(<<>>)}

\* selector_match is called on a selector and a node.
CallSelectorMatch(sel, e) ==
    /\ last.op # "selector_match"
    /\ last' = [op |-> "selector_match", selector |-> sel, entity |-> e,
                result |-> selector_match(sel, e)]
    /\ UNCHANGED <<palette, zIndex, parent, elementStyles, stylesChanged, classes, classesChanged, text,
                   textChanged, textStyles, style, animatedLayout, transform,
                   animatedTransform, focus, focus_prev, hover, hover_prev, commands,
                   ran, delta, obs, events>>

NextMatch ==
    \/ \E e \in Entities : \E names \in SUBSET ClassNames :
            IsSome(classes[e]) /\ SetClasses(e, names)
    \/ \E f \in {0} \cup Entities : SetFocus(f)
    \/ \E h \in {0} \cup Entities : PreUpdate(1, h)
    \/ \E sel \in MatchSelectors : \E e \in Entities : CallSelectorMatch(sel, e)

SpecMatch == Init /\ [][NextMatch]_vars

\* The n-th ancestor of a node (0: the node itself); 0 when there is none.
RECURSIVE Ancestor(_, _)
Ancestor(n, level) ==
    IF n = 0 \/ level = 0 THEN n ELSE Ancestor(parent[n], level - 1)

\* A node and its ancestors.
RECURSIVE SelfAndAncestors(_)
SelfAndAncestors(n) == IF n = 0 THEN {} ELSE {n} \cup SelfAndAncestors(parent[n])

\* The test of one link on a node, read off the tree and the per-node state.
LinkTest(link, n) ==
    CASE link[1] = "Class" -> classes[n] # None /\ link[2] \in classes[n][1]
      [] link[1] = "Hover" -> n \in SelfAndAncestors(hover)
      [] link[1] = "Focus" -> focus = n
      [] link[1] = "FocusWithin" -> n \in SelfAndAncestors(focus)
      [] link[1] = "FocusVisible" -> focus = n
      [] link[1] = "FirstChild" ->
            parent[n] # 0 /\ \A m \in Entities : parent[m] = parent[n] => n <= m
      [] link[1] = "LastChild" ->
            parent[n] # 0 /\ \A m \in Entities : parent[m] = parent[n] => m <= n
      [] OTHER -> TRUE

\* The alternatives of a selector, each a set of <<link, level>>: the tests it
\* makes and how many Parent steps above the node it makes them.  A Parent
\* step contributes the existence of the ancestor it steps to.
RECURSIVE Alternatives(_, _)
Alternatives(sel, level) ==
    CASE sel[1] = "Accept" -> {{}}
      [] sel[1] = "Either" ->
            UNION {Alternatives(sel[2][i], level) : i \in DOMAIN sel[2]}
      [] sel[1] = "Parent" ->
            {{<<sel, level + 1>>} \cup alt : alt \in Alternatives(sel[2], level + 1)}
      [] sel[1] = "Class" ->
            {{<<sel, level>>} \cup alt : alt \in Alternatives(sel[3], level)}
      [] OTHER ->
            {{<<sel, level>>} \cup alt : alt \in Alternatives(sel[2], level)}

\* The reference predicate: some alternative has all its tests true on the
\* ancestors it names, all of which exist.
ReferenceMatch(sel, n) ==
    \E alt \in Alternatives(sel, 0) :
        \A t \in alt : Ancestor(n, t[2]) # 0 /\ LinkTest(t[1], Ancestor(n, t[2]))

\* C11: selector_match(selector, node) equals the reference predicate (Accept
\* true, every test link the conjunction of its test on the current node with
\* the rest of the chain, Parent continuing on the parent, Either the
\* disjunction of its branches), and Current is a pass-through:
\* match(Current(s), n) = match(s, n).
C11_MatchEqualsReference ==
    last.op = "selector_match" =>
        /\ last.result = ReferenceMatch(last.selector, last.entity)
        /\ last.selector[1] = "Current" =>
                last.result = selector_match(last.selector[2], last.entity)

\* A two-level selector behind `&` matched on a node whose parent has the class.
C11_Witness ==
    /\ last.op = "selector_match"
    /\ last.selector = Current(Parent(Class("a", Accept)))
    /\ parent[last.entity] # 0
    /\ last.result

\* C12: matching has no failure mode: the result is a boolean for every
\* selector and node; a Parent step on a node without parent, a Class test on
\* a node without class set and FirstChild / LastChild on a node without
\* parent are false.
C12_MatchIsTotal ==
    last.op = "selector_match" =>
        LET sel == last.selector
            n == last.entity
        IN  /\ last.result \in BOOLEAN
            /\ (sel[1] = "Parent" /\ parent[n] = 0) => ~last.result
            /\ (sel[1] = "Class" /\ classes[n] = None) => ~last.result
            /\ (sel[1] \in {"FirstChild", "LastChild"} /\ parent[n] = 0) => ~last.result

\* FirstChild asked of a root that comes first among the roots.
C12_Witness ==
    /\ last.op = "selector_match"
    /\ last.selector = FirstChild(Accept)
    /\ parent[last.entity] = 0
    /\ ~last.result

-----------------------------------------------------------------------------
(* selector_parser.rs.  A string is a sequence of atoms: a character, or a  *)
(* run of characters no parser splits (":hover", "-within").  A literal is  *)
(* a sequence of atoms and matches as a prefix of the input, so ":focus"    *)
(* matches at the head of ":focus-within", as it does on the characters.    *)
(* A parser returns the rest of the input with its value.                   *)

Drop(s, n) == SubSeq(s, n + 1, Len(s))
StartsWith(s, lit) == Len(s) >= Len(lit) /\ SubSeq(s, 1, Len(lit)) = lit

\* AsChar::is_alpha on an atom.
AlphaAtoms == {"a", "b"}
\* The characters class_name's take_while accepts: alphanumeric, '-', '_'.
NameAtoms == AlphaAtoms \cup {"-within", "-visible"}

\* ascii::space0
RECURSIVE space0(_)
space0(s) == IF s # <<>> /\ s[1] = " " THEN space0(Drop(s, 1)) ELSE s

\* parent: (space0, '>', space0).  A sequence does not rewind what its first
\* parsers took when a later one fails.
parse_parent(s) ==
    LET angle(s1) ==
            IF s1 # <<>> /\ s1[1] = ">"
            THEN [ok |-> TRUE, rest |-> space0(Drop(s1, 1))]
            ELSE [ok |-> FALSE, rest |-> s1]
    IN  angle(space0(s))

\* take_while(0.., (is_alphanum, '-', '_')) after the first letter of a name
RECURSIVE take_name(_, _)
take_name(s, name) ==
    IF s # <<>> /\ s[1] \in NameAtoms
    THEN take_name(Drop(s, 1), name \o s[1])
    ELSE [value |-> name, rest |-> s]

\* class_name
class_name(s) ==
    IF Len(s) >= 2 /\ s[1] = "." /\ s[2] \in AlphaAtoms
    THEN LET named(r) == [ok |-> TRUE, value |-> <<"Class", r.value>>, rest |-> r.rest]
         IN  named(take_name(Drop(s, 2), s[2]))
    ELSE [ok |-> FALSE, value |-> <<>>, rest |-> s]

\* A literal mapped to a SelectorToken.
token_literal(lit, tok, s) ==
    IF StartsWith(s, lit)
    THEN [ok |-> TRUE, value |-> <<tok>>, rest |-> Drop(s, Len(lit))]
    ELSE [ok |-> FALSE, value |-> <<>>, rest |-> s]

parse_hover(s) == token_literal(<<":hover">>, "Hover", s)
parse_focus(s) == token_literal(<<":focus">>, "Focus", s)
focus_within(s) == token_literal(<<":focus", "-within">>, "FocusWithin", s)
focus_visible(s) == token_literal(<<":focus", "-visible">>, "FocusVisible", s)
first_child(s) == token_literal(<<":first-child">>, "FirstChild", s)
last_child(s) == token_literal(<<":last-child">>, "LastChild", s)

\* combinator::alt: the result of the first parser that succeeds.
alt(results) ==
    IF \E i \in DOMAIN results : results[i].ok
    THEN results[CHOOSE i \in DOMAIN results :
                    results[i].ok /\ \A j \in DOMAIN results : results[j].ok => i <= j]
    ELSE [ok |-> FALSE, value |-> <<>>, rest |-> <<>>]

\* The alt of simple_selector, in its order.
selector_token(s) ==
    alt(<<class_name(s), parse_hover(s), first_child(s), last_child(s),
          parse_focus(s), focus_within(s), focus_visible(s)>>)

\* repeat(0.., alt(..))
RECURSIVE repeat_tokens(_, _)
repeat_tokens(s, acc) ==
    LET next(r) ==
            IF r.ok THEN repeat_tokens(r.rest, Append(acc, r.value))
            ELSE [value |-> acc, rest |-> s]
    IN  next(selector_token(s))

\* simple_selector: (opt(alt(('*', '&'))), repeat(0.., tokens))
simple_selector(s) ==
    LET has_prefix == s # <<>> /\ s[1] \in {"*", "&"}
        tokens(r) ==
            [prefix |-> IF has_prefix THEN Some(s[1]) ELSE None,
             value |-> r.value, rest |-> r.rest]
    IN  tokens(repeat_tokens(IF has_prefix THEN Drop(s, 1) ELSE s, <<>>))

\* The body of `for tok in classes`: each token wraps the chain built so far.
wrap_token(sel, tok) ==
    IF tok[1] = "Class" THEN Class(tok[2], sel) ELSE <<tok[1], sel>>
RECURSIVE wrap_tokens(_, _)
wrap_tokens(sel, toks) ==
    IF toks = <<>> THEN sel ELSE wrap_tokens(wrap_token(sel, toks[1]), Tail(toks))
\* if let Some(ch) = prefix { if ch == '&' { Current } }
wrap_prefix(sel, prefix) == IF prefix = Some("&") THEN Current(sel) ELSE sel

\* combo_selector
combo_selector(s) ==
    LET build(r) ==
            [value |-> wrap_prefix(wrap_tokens(Accept, r.value), r.prefix), rest |-> r.rest]
    IN  build(simple_selector(s))

\* The while loop of desc_selector.
RECURSIVE desc_loop(_, _)
desc_loop(sel, s) ==
    LET build(r) ==
            desc_loop(wrap_prefix(wrap_tokens(Parent(sel), r.value), r.prefix), r.rest)
        step(p) ==
            IF p.ok THEN build(simple_selector(p.rest))
            ELSE [value |-> sel, rest |-> p.rest]
    IN  step(parse_parent(s))

\* desc_selector
desc_selector(s) ==
    LET loop(c) == desc_loop(c.value, c.rest)
    IN  loop(combo_selector(s))

\* The separator of either: (space0, ',', space0)
comma(s) ==
    LET sep(s1) ==
            IF s1 # <<>> /\ s1[1] = ","
            THEN [ok |-> TRUE, rest |-> space0(Drop(s1, 1))]
            ELSE [ok |-> FALSE, rest |-> s]
    IN  sep(space0(s))

\* separated(1.., desc_selector, ..) after its first element: a failed
\* separator rewinds and ends the list.
RECURSIVE separated(_, _)
separated(s, acc) ==
    LET element(d) == separated(d.rest, Append(acc, d.value))
        step(c) ==
            IF c.ok THEN element(desc_selector(c.rest))
            ELSE [value |-> acc, rest |-> s]
    IN  step(comma(s))

\* either
either(s) ==
    LET collect(r) ==
            [value |-> IF Len(r.value) = 1 THEN r.value[1] ELSE Either(r.value),
             rest |-> r.rest]
        first(d) == collect(separated(d.rest, <<d.value>>))
    IN  first(desc_selector(s))

\* selector_parser
selector_parser(s) == either(s)

\* str::trim
RECURSIVE trim_end(_)
trim_end(s) == IF s # <<>> /\ s[Len(s)] = " " THEN trim_end(SubSeq(s, 1, Len(s) - 1)) ELSE s
trim(s) == trim_end(space0(s))

\* impl FromStr for Selector: selector_parser.parse(input.trim()); parse
\* fails on input that is left over.
from_str(input) ==
    LET whole(r) ==
            IF r.rest = <<>> THEN [ok |-> TRUE, value |-> r.value]
            ELSE [ok |-> FALSE, value |-> <<>>]
    IN  whole(selector_parser(trim(input)))

-----------------------------------------------------------------------------
(* selector.rs: impl fmt::Display for Selector *)

\* The atoms of a class name: the inverse of the concatenation take_name makes.
NameSeqs == {<<a>> : a \in AlphaAtoms} \cup {<<a, c>> : a \in AlphaAtoms, c \in NameAtoms}
AtomsOf(name) ==
    CHOOSE q \in NameSeqs : name = (IF Len(q) = 1 THEN q[1] ELSE q[1] \o q[2])

\* The `while let Selector::Class(name, desc) = p` loop of the Current arm.
RECURSIVE class_run(_, _)
class_run(p, str) ==
    IF p[1] = "Class"
    THEN class_run(p[3], <<".">> \o AtomsOf(p[2]) \o str)
    ELSE [p |-> p, str |-> str]

\* Selector::fmt, i.e. to_string()
RECURSIVE to_string(_)
RECURSIVE join_items(_, _)
join_items(items, index) ==
    IF index > Len(items) THEN <<>>
    ELSE (IF index > 1 THEN <<",", " ">> ELSE <<>>)
            \o to_string(items[index]) \o join_items(items, index + 1)
to_string(sel) ==
    CASE sel[1] = "Accept" -> <<>>
      [] sel[1] = "Current" ->
            LET write(r) == to_string(r.p) \o <<"&">> \o r.str
            IN  write(class_run(sel[2], <<>>))
      [] sel[1] = "Class" -> to_string(sel[3]) \o <<".">> \o AtomsOf(sel[2])
      [] sel[1] = "Hover" -> to_string(sel[2]) \o <<":hover">>
      [] sel[1] = "Focus" -> to_string(sel[2]) \o <<":focus">>
      [] sel[1] = "FocusWithin" -> to_string(sel[2]) \o <<":focus", "-within">>
      [] sel[1] = "FocusVisible" -> to_string(sel[2]) \o <<":focus", "-visible">>
      [] sel[1] = "FirstChild" -> to_string(sel[2]) \o <<":first-child">>
      [] sel[1] = "LastChild" -> to_string(sel[2]) \o <<":last-child">>
      [] sel[1] = "Parent" ->
            IF sel[2][1] = "Parent"
            THEN to_string(sel[2]) \o <<"*", " ", ">", " ">>
            ELSE to_string(sel[2]) \o <<" ", ">", " ">>
      [] sel[1] = "Either" -> join_items(sel[2], 1)

-----------------------------------------------------------------------------
(* Selector strings: parsed, rendered and parsed again. *)

\* The most pieces of a selector string.
MaxSelLen == 4

\* The pieces selector strings are written with.
SelectorPieces ==
    {<<"&">>, <<"*">>, <<".", "a">>, <<".", "b">>, <<":hover">>, <<":focus">>,
     <<":focus", "-within">>, <<":focus", "-visible">>, <<":first-child">>,
     <<":last-child">>, <<" ", ">", " ">>, <<",", " ">>}

RECURSIVE Flatten(_)
Flatten(seqs) == IF seqs = <<>> THEN <<>> ELSE seqs[1] \o Flatten(Tail(seqs))

SelectorStrings ==
    {Flatten(q) : q \in UNION {[1..n -> SelectorPieces] : n \in 0..MaxSelLen}}

\* str.parse::<Selector>()
FromStr(input) ==
    /\ last.op = "spawn"
    /\ last' = [op |-> "from_str", input |-> input, result |-> from_str(input)]
    /\ UNCHANGED <<palette, zIndex, parent, elementStyles, stylesChanged, classes, classesChanged, text,
                   textChanged, textStyles, style, animatedLayout, transform,
                   animatedTransform, focus, focus_prev, hover, hover_prev, commands,
                   ran, delta, obs, events>>

\* selector.to_string() of a parsed selector, and the parse of the rendering.
CallToString ==
    /\ last.op = "from_str" /\ last.result.ok
    /\ last' = [op |-> "to_string", input |-> last.input, selector |-> last.result.value,
                text |-> to_string(last.result.value),
                reparsed |-> from_str(to_string(last.result.value))]
    /\ UNCHANGED <<palette, zIndex, parent, elementStyles, stylesChanged, classes, classesChanged, text,
                   textChanged, textStyles, style, animatedLayout, transform,
                   animatedTransform, focus, focus_prev, hover, hover_prev, commands,
                   ran, delta, obs, events>>

NextSelector ==
    \/ last.op = "spawn" /\ \E input \in SelectorStrings : FromStr(input)
    \/ CallToString

SpecSelector == InitScene(SceneChain) /\ [][NextSelector]_vars

\* C13: for every string the selector parser accepts, `&` with pseudo-classes
\* included, rendering the parsed selector and parsing the rendering succeeds
\* and gives an equal selector.
C13_SelectorRoundTrip ==
    last.op = "to_string" => last.reparsed.ok /\ last.reparsed.value = last.selector

\* A Current marker whose chain, past its leading class names, goes on with a
\* pseudo-class: a term written `&`, class names or none, then a pseudo-class.
RECURSIVE CurrentBeforePseudo(_)
CurrentBeforePseudo(sel) ==
    CASE sel[1] = "Accept" -> FALSE
      [] sel[1] = "Class" -> CurrentBeforePseudo(sel[3])
      [] sel[1] = "Either" -> \E i \in DOMAIN sel[2] : CurrentBeforePseudo(sel[2][i])
      [] sel[1] = "Current" ->
            \/ class_run(sel[2], <<>>).p[1] \notin {"Accept", "Parent"}
            \/ CurrentBeforePseudo(sel[2])
      [] OTHER -> CurrentBeforePseudo(sel[2])

\* The round trip of every other accepted string.
RoundTripWithoutCurrentBeforePseudo ==
    (last.op = "to_string" /\ ~CurrentBeforePseudo(last.selector))
        => last.reparsed.ok /\ last.reparsed.value = last.selector

\* The string of a pseudo-class and the selector it stands for.
PseudoClasses ==
    {<< <<":hover">>, Hover(Accept) >>,
     << <<":focus">>, Focus(Accept) >>,
     << <<":focus", "-within">>, FocusWithin(Accept) >>,
     << <<":focus", "-visible">>, FocusVisible(Accept) >>,
     << <<":first-child">>, FirstChild(Accept) >>,
     << <<":last-child">>, LastChild(Accept) >>}

\* C14: each of the six pseudo-class strings is accepted and yields its own
\* variant wrapping Accept.
C14_PseudoClassesParse ==
    \A pc \in PseudoClasses :
        (last.op = "from_str" /\ last.input = pc[1]) =>
            last.result.ok /\ last.result.value = pc[2]

\* The number of Current markers in a selector.
RECURSIVE CurrentCount(_)
RECURSIVE CurrentCountFrom(_, _)
CurrentCountFrom(items, index) ==
    IF index > Len(items) THEN 0
    ELSE CurrentCount(items[index]) + CurrentCountFrom(items, index + 1)
CurrentCount(sel) ==
    CASE sel[1] = "Accept" -> 0
      [] sel[1] = "Class" -> CurrentCount(sel[3])
      [] sel[1] = "Current" -> 1 + CurrentCount(sel[2])
      [] sel[1] = "Either" -> CurrentCountFrom(sel[2], 1)
      [] OTHER -> CurrentCount(sel[2])

\* One alternative is well-formed: no Current, or one, as its outermost node.
WellFormedChain(sel) ==
    \/ CurrentCount(sel) = 0
    \/ sel[1] = "Current" /\ CurrentCount(sel[2]) = 0

\* C15: in every selector the parser produces, each alternative has at most
\* one Current marker, on the last term of the expression: the outermost node
\* of the chain, never beneath a Parent step.
C15_CurrentOnLastTermOnly ==
    (last.op = "from_str" /\ last.result.ok) =>
        LET sel == last.result.value
        IN  IF sel[1] = "Either"
            THEN \A i \in DOMAIN sel[2] : WellFormedChain(sel[2][i])
            ELSE WellFormedChain(sel)

-----------------------------------------------------------------------------
(* style_parser.rs: values.  A parser's result is Ok with a value and the   *)
(* rest of the input, a Backtrack error (an enclosing alt, opt or repeat    *)
(* goes on from where it stood) or a Cut error (the whole parse fails).     *)

Ok(value, rest) == [ok |-> TRUE, cut |-> FALSE, value |-> value, rest |-> rest, err |-> <<>>]
Backtrack(rest) ==
    [ok |-> FALSE, cut |-> FALSE, value |-> <<>>, rest |-> rest, err |-> <<"parse error">>]
Cut(err, rest) == [ok |-> FALSE, cut |-> TRUE, value |-> <<>>, rest |-> rest, err |-> err]

\* A range given to take_while or separated: Rust's start..end, end excluded.
Range(start, end) == [start_inclusive |-> start, end_inclusive |-> end - 1]

\* The atoms of digits, and their values.
DigitAtoms == {"0", "1", "2", "3", "4"}
DigitValue(a) ==
    CASE a = "0" -> 0 [] a = "1" -> 1 [] a = "2" -> 2 [] a = "3" -> 3 [] a = "4" -> 4
\* AsChar::is_hex_digit
HexAtoms == DigitAtoms \cup {"a", "f"}
HexValue(a) == CASE a = "a" -> 10 [] a = "f" -> 15 [] OTHER -> DigitValue(a)
\* Atoms made of letters, digits and '_' that start with a letter.
WordAtoms ==
    {"a", "f", "rgb", "hsl", "px", "vh", "vw", "vmin", "vmax", "auto", "flex", "grid", "none",
     "transparent", "bogus", "MAIN", "SIDE", "foo", "color", "background_color",
     "border_color", "width", "height", "margin", "padding", "border", "display"}
\* take_while(.., (AsChar::is_alphanum, '_'))
WordTailAtoms == WordAtoms \cup DigitAtoms \cup {"_linear"}

\* ascii::multispace0
RECURSIVE multispace0(_)
multispace0(s) == IF s # <<>> /\ s[1] \in {" ", "\n"} THEN multispace0(Drop(s, 1)) ELSE s

\* The rest of a line: take_while(0.., |c| c != '\r' && c != '\n')
RECURSIVE skip_line(_)
skip_line(s) == IF s # <<>> /\ s[1] # "\n" THEN skip_line(Drop(s, 1)) ELSE s

\* whitespace: blanks and `//` comments
RECURSIVE whitespace(_)
whitespace(s) ==
    IF s # <<>> /\ s[1] = "//" THEN whitespace(skip_line(Drop(s, 1)))
    ELSE IF s # <<>> /\ s[1] \in {" ", "\n"} THEN whitespace(Drop(s, 1))
    ELSE s

RECURSIVE take_word(_, _)
take_word(s, word) ==
    IF s # <<>> /\ s[1] \in WordTailAtoms
    THEN take_word(Drop(s, 1), word \o s[1])
    ELSE [value |-> word, rest |-> s]

\* prop_name
prop_name(s) ==
    IF s # <<>> /\ s[1] \in WordAtoms
    THEN LET word(r) == Ok(r.value, r.rest) IN word(take_word(Drop(s, 1), s[1]))
    ELSE Backtrack(s)

\* ident
ident(s) ==
    IF s # <<>> /\ s[1] \in WordAtoms
    THEN LET word(r) == Ok(<<"Ident", r.value>>, r.rest)
         IN  word(take_word(Drop(s, 1), s[1]))
    ELSE Backtrack(s)

\* string: a quote, the characters up to the next quote, a quote
RECURSIVE string_chars(_, _)
string_chars(s, acc) ==
    IF s # <<>> /\ s[1] # "\"" THEN string_chars(Drop(s, 1), Append(acc, s[1]))
    ELSE [value |-> acc, rest |-> s]
string(s) ==
    IF s # <<>> /\ s[1] = "\""
    THEN LET close(r) ==
                 IF r.rest # <<>> THEN Ok(<<"String", r.value>>, Drop(r.rest, 1))
                 ELSE Backtrack(s)
         IN  close(string_chars(Drop(s, 1), <<>>))
    ELSE Backtrack(s)

\* f32_arg (ascii::float) on a run of digits
RECURSIVE take_digits(_, _)
take_digits(s, n) ==
    IF s # <<>> /\ s[1] \in DigitAtoms
    THEN take_digits(Drop(s, 1), 10 * n + DigitValue(s[1]))
    ELSE [value |-> n, rest |-> s]
f32_arg(s) ==
    IF s # <<>> /\ s[1] \in DigitAtoms
    THEN LET number(r) == Ok(r.value, r.rest) IN number(take_digits(s, 0))
    ELSE Backtrack(s)

\* ui::Val besides Px and Auto
Val(k, v) == [k |-> k, v |-> v]

\* length
length(s) ==
    IF s # <<>> /\ s[1] = "auto" THEN Ok(<<"Length", Auto>>, Drop(s, 1))
    ELSE LET unit(n) ==
                 IF ~n.ok THEN Backtrack(s)
                 ELSE IF n.rest # <<>> /\ n.rest[1] \in {"%", "px", "vh", "vw", "vmin", "vmax"}
                 THEN Ok(<<"Length",
                           CASE n.rest[1] = "%" -> Val("Percent", n.value)
                             [] n.rest[1] = "px" -> Px(n.value)
                             [] n.rest[1] = "vh" -> Val("Vh", n.value)
                             [] n.rest[1] = "vw" -> Val("Vw", n.value)
                             [] n.rest[1] = "vmin" -> Val("VMin", n.value)
                             [] n.rest[1] = "vmax" -> Val("VMax", n.value)>>,
                         Drop(n.rest, 1))
                 ELSE Ok(<<"Number", n.value>>, n.rest)
         IN  unit(f32_arg(s))

\* ascii::space1
space1(s) == IF s # <<>> /\ s[1] = " " THEN Ok(<<>>, space0(s)) ELSE Backtrack(s)

\* separated(range, length, space1) after its first element: while fewer
\* than the range's last count are taken, a separator and an element; a
\* failure of either rewinds, and is an error below the range's first count.
RECURSIVE separated_lengths(_, _, _)
separated_lengths(s, acc, range) ==
    IF Len(acc) >= range.end_inclusive THEN Ok(acc, s)
    ELSE LET end == IF Len(acc) < range.start_inclusive THEN Backtrack(s) ELSE Ok(acc, s)
             element(el) ==
                 IF el.ok THEN separated_lengths(el.rest, Append(acc, el.value), range)
                 ELSE end
             separator(sp) == IF sp.ok THEN element(length(sp.rest)) ELSE end
         IN  separator(space1(s))

\* length_list: separated(2..4, length, space1)
length_list(s) ==
    LET list(r) == IF r.ok THEN Ok(<<"List", r.value>>, r.rest) ELSE Backtrack(s)
        others(first) ==
            IF ~first.ok THEN Backtrack(s)
            ELSE list(separated_lengths(first.rest, <<first.value>>, Range(2, 4)))
    IN  others(length(s))

\* Color: Rgba with channels in 1/255 (Color::rgb(1., 1., 1.) is #ffffff), or Hsla.
Rgba(r, g, b, a) == [space |-> "Rgba", c |-> <<r, g, b, a>>]

\* Color::hex on the digits after '#': 3, 4, 6 or 8 of them, or an error.
Color_hex(digits) ==
    LET h(i) == HexValue(digits[i])
    IN  CASE Len(digits) = 3 -> Ok(Rgba(17 * h(1), 17 * h(2), 17 * h(3), 255), <<>>)
          [] Len(digits) = 4 -> Ok(Rgba(17 * h(1), 17 * h(2), 17 * h(3), 17 * h(4)), <<>>)
          [] Len(digits) = 6 ->
                Ok(Rgba(16 * h(1) + h(2), 16 * h(3) + h(4), 16 * h(5) + h(6), 255), <<>>)
          [] Len(digits) = 8 ->
                Ok(Rgba(16 * h(1) + h(2), 16 * h(3) + h(4), 16 * h(5) + h(6),
                        16 * h(7) + h(8)), <<>>)
          [] OTHER -> Backtrack(<<>>)

\* take_while(range, AsChar::is_hex_digit): how many atoms it takes
RECURSIVE hex_run(_, _, _)
hex_run(s, n, range) ==
    IF n < range.end_inclusive /\ Len(s) > n /\ s[n + 1] \in HexAtoms
    THEN hex_run(s, n + 1, range)
    ELSE n

\* The names color_fn's alt tries, in its order.
ColorFnNames ==
    << [name |-> "rgb", lit |-> <<"rgb">>], [name |-> "rgba", lit |-> <<"rgb", "a">>],
       [name |-> "rgb_linear", lit |-> <<"rgb", "_linear">>],
       [name |-> "rgba_linear", lit |-> <<"rgb", "a", "_linear">>],
       [name |-> "hsl", lit |-> <<"hsl">>], [name |-> "hsla", lit |-> <<"hsl", "a">>] >>

\* color_arg_sep: (multispace0, opt((',', multispace0)))
color_arg_sep(s) ==
    LET sep(s1) == IF s1 # <<>> /\ s1[1] = "," THEN multispace0(Drop(s1, 1)) ELSE s1
    IN  sep(multispace0(s))
\* alpha_sep: (multispace0, opt((one_of([',', '/']), multispace0)))
alpha_sep(s) ==
    LET sep(s1) == IF s1 # <<>> /\ s1[1] \in {",", "/"} THEN multispace0(Drop(s1, 1)) ELSE s1
    IN  sep(multispace0(s))

\* The map of color_fn: the Color of a function name and its arguments.
color_of(f, a1, a2, a3, a4) ==
    CASE f \in {"rgb", "rgba"} ->
            Rgba(255 * a1, 255 * a2, 255 * a3, IF IsSome(a4) THEN 255 * Unwrap(a4) ELSE 255)
      [] f \in {"rgb_linear", "rgba_linear"} ->
            [space |-> "RgbaLinear", c |-> <<a1, a2, a3, UnwrapOr(a4, 1)>>]
      [] f \in {"hsl", "hsla"} -> [space |-> "Hsla", c |-> <<a1, a2, a3, UnwrapOr(a4, 1)>>]

\* The cut_err part of color_fn: the arguments and the closing parenthesis.
color_fn_args(f, s) ==
    LET close(a1, a2, a3, a4, s4) ==
            IF s4 # <<>> /\ s4[1] = ")"
            THEN Ok(<<"Color", color_of(f, a1.value, a2.value, a3.value,
                                        IF a4.ok THEN Some(a4.value) ELSE None)>>,
                    Drop(s4, 1))
            ELSE Cut(<<"parse error">>, s4)
        alpha(a1, a2, a3, a4) ==
            close(a1, a2, a3, a4, multispace0(IF a4.ok THEN a4.rest ELSE a3.rest))
        third(a1, a2, a3) ==
            IF ~a3.ok THEN Cut(<<"parse error">>, a2.rest)
            ELSE alpha(a1, a2, a3, f32_arg(alpha_sep(a3.rest)))
        second(a1, a2) ==
            IF ~a2.ok THEN Cut(<<"parse error">>, a1.rest)
            ELSE third(a1, a2, f32_arg(color_arg_sep(a2.rest)))
        first(a1) ==
            IF ~a1.ok THEN Cut(<<"parse error">>, s)
            ELSE second(a1, f32_arg(color_arg_sep(a1.rest)))
    IN  first(f32_arg(multispace0(s)))

\* color_fn: the first name that matches, blanks, '(', then the cut part
color_fn(s) ==
    IF \E i \in DOMAIN ColorFnNames : StartsWith(s, ColorFnNames[i].lit)
    THEN LET open(fn, s1) ==
                 IF s1 # <<>> /\ s1[1] = "(" THEN color_fn_args(fn.name, Drop(s1, 1))
                 ELSE Backtrack(s)
             name(fn) == open(fn, multispace0(Drop(s, Len(fn.lit))))
         IN  name(ColorFnNames[CHOOSE i \in DOMAIN ColorFnNames :
                                  /\ StartsWith(s, ColorFnNames[i].lit)
                                  /\ \A j \in DOMAIN ColorFnNames :
                                         StartsWith(s, ColorFnNames[j].lit) => i <= j])
    ELSE Backtrack(s)

\* color: alt(('#', take_while(1..8, is_hex_digit)).try_map(Color::hex), color_fn)
color(s) ==
    LET mapped(n, hex) ==
            IF hex.ok THEN Ok(<<"Color", hex.value>>, Drop(s, n + 1)) ELSE color_fn(s)
        digits(n) ==
            mapped(n, IF n >= Range(1, 8).start_inclusive
                      THEN Color_hex(SubSeq(s, 2, n + 1))
                      ELSE Backtrack(s))
    IN  digits(IF s # <<>> /\ s[1] = "#" THEN hex_run(Drop(s, 1), 0, Range(1, 8)) ELSE 0)

\* alt over parsers that may cut: the first that succeeds or cuts decides.
alt_cut(results) ==
    IF \E i \in DOMAIN results : results[i].ok \/ results[i].cut
    THEN results[CHOOSE i \in DOMAIN results :
                    /\ results[i].ok \/ results[i].cut
                    /\ \A j \in DOMAIN results : (results[j].ok \/ results[j].cut) => i <= j]
    ELSE Backtrack(<<>>)

\* The value of a declaration: alt((color, ident, length_list, length, string))
prop_value(s) == alt_cut(<<color(s), ident(s), length_list(s), length(s), string(s)>>)

-----------------------------------------------------------------------------
(* style_parser.rs: declarations.  A coercion's result is Ok with the value *)
(* or an Err with a StyleParsingError.                                      *)

Err(kind, arg) == [ok |-> FALSE, err |-> <<kind, arg>>]

\* PropValue::type_name
type_name(value) ==
    CASE value[1] = "Ident" -> "ident"
      [] value[1] = "Number" -> "number"
      [] value[1] = "String" -> "string"
      [] value[1] = "Length" -> "length"
      [] value[1] = "List" -> "list"
      [] value[1] = "Color" -> "color"

\* format!("\"{}\"", id)
Quoted(id) == "\"" \o id \o "\""

\* CoercePropValue<Option<Color>>
coerce_color(value) ==
    CASE value[1] = "Color" -> [ok |-> TRUE, value |-> Some(value[2])]
      [] value = <<"Ident", "transparent">> -> [ok |-> TRUE, value |-> None]
      [] value[1] = "Ident" -> Err("InvalidPropertyType", Quoted(value[2]))
      [] OTHER -> Err("InvalidPropertyType", type_name(value))

\* CoercePropValue<ui::Val>
coerce_val(value) ==
    CASE value[1] = "Number" -> [ok |-> TRUE, value |-> Px(value[2])]
      [] value[1] = "Length" -> [ok |-> TRUE, value |-> value[2]]
      [] value = <<"Ident", "auto">> -> [ok |-> TRUE, value |-> Auto]
      [] value[1] = "Ident" -> Err("InvalidPropertyValue", Quoted(value[2]))
      [] OTHER -> Err("InvalidPropertyType", type_name(value))

\* ui::UiRect::new(left, right, top, bottom), ::axes(horizontal, vertical), ::all
UiRect_new(left, right, top, bottom) ==
    [left |-> left, right |-> right, top |-> top, bottom |-> bottom]
UiRect_axes(horizontal, vertical) == UiRect_new(horizontal, horizontal, vertical, vertical)
UiRect_all(v) == UiRect_new(v, v, v, v)

\* CoercePropValue<ui::UiRect>; `?` hands on the first error of an element.
coerce_rect(value) ==
    CASE value[1] = "Number" -> [ok |-> TRUE, value |-> UiRect_all(Px(value[2]))]
      [] value[1] = "Length" -> [ok |-> TRUE, value |-> UiRect_all(value[2])]
      [] value[1] = "List" ->
            LET vals == [i \in DOMAIN value[2] |-> coerce_val(value[2][i])]
                v(i) == vals[i].value
            IN  IF \E i \in DOMAIN vals : ~vals[i].ok
                THEN vals[CHOOSE i \in DOMAIN vals : ~vals[i].ok]
                ELSE (CASE Len(vals) = 2 -> [ok |-> TRUE, value |-> UiRect_axes(v(2), v(1))]
                        [] Len(vals) = 3 ->
                             [ok |-> TRUE, value |-> UiRect_new(v(2), v(2), v(1), v(3))]
                        [] Len(vals) = 4 ->
                             [ok |-> TRUE, value |-> UiRect_new(v(4), v(2), v(1), v(3))])
      [] value = <<"Ident", "auto">> -> [ok |-> TRUE, value |-> UiRect_all(Auto)]
      [] value[1] = "Ident" -> Err("InvalidPropertyValue", Quoted(value[2]))
      [] OTHER -> Err("InvalidPropertyType", type_name(value))

\* CoercePropValue<ui::Display>
coerce_display(value) ==
    CASE value = <<"Ident", "flex">> -> [ok |-> TRUE, value |-> "Flex"]
      [] value = <<"Ident", "grid">> -> [ok |-> TRUE, value |-> "Grid"]
      [] value = <<"Ident", "none">> -> [ok |-> TRUE, value |-> "None"]
      [] value[1] = "Ident" -> Err("InvalidPropertyValue", Quoted(value[2]))
      [] OTHER -> Err("InvalidPropertyType", type_name(value))

\* The names of create_prop the declarations here use, by the type of the
\* variant they bind to.
ColorProps == {"background_color", "border_color", "color"}
ValProps == {"width", "height"}
RectProps == {"border", "padding", "margin"}
DisplayProps == {"display"}
KnownProps == ColorProps \cup ValProps \cup RectProps \cup DisplayProps

\* The StyleProp variant of a name.
Variant(name) ==
    CASE name = "background_color" -> "BackgroundColor"
      [] name = "border_color" -> "BorderColor"
      [] name = "color" -> "Color"
      [] name = "display" -> "Display"
      [] name = "width" -> "Width"
      [] name = "height" -> "Height"
      [] name = "border" -> "Border"
      [] name = "padding" -> "Padding"
      [] name = "margin" -> "Margin"

\* value.coerce() at the type of the variant
coerce(name, value) ==
    CASE name \in ColorProps -> coerce_color(value)
      [] name \in ValProps -> coerce_val(value)
      [] name \in RectProps -> coerce_rect(value)
      [] name \in DisplayProps -> coerce_display(value)

\* create_prop
create_prop(name, value) ==
    IF name \in KnownProps
    THEN LET variant(c) ==
                 IF c.ok THEN [ok |-> TRUE, value |-> StyleProp(Variant(name), c.value)] ELSE c
         IN  variant(coerce(name, value))
    ELSE Err("InvalidPropertyName", name)

\* style_prop_inner: name, ':', value, a cut ';', then create_prop, whose
\* error is a cut error
style_prop_inner(s) ==
    LET created(prop, s2) ==
            IF prop.ok THEN Ok(prop.value, Drop(s2, 1)) ELSE Cut(prop.err, Drop(s2, 1))
        semicolon(name, value, s2) ==
            IF s2 = <<>> \/ s2[1] # ";" THEN Cut(<<"expected", "semicolon">>, s2)
            ELSE created(create_prop(name.value, value.value), s2)
        valued(name, value) ==
            IF ~value.ok THEN (IF value.cut THEN value ELSE Backtrack(s))
            ELSE semicolon(name, value, multispace0(value.rest))
        colon(name, s1) ==
            IF s1 = <<>> \/ s1[1] # ":" THEN Backtrack(s)
            ELSE valued(name, prop_value(multispace0(Drop(s1, 1))))
        named(name) ==
            IF ~name.ok THEN Backtrack(s) ELSE colon(name, multispace0(name.rest))
    IN  named(prop_name(s))

\* style_prop: (style_prop_inner, whitespace)
style_prop(s) ==
    LET spaced(r) == IF r.ok THEN Ok(r.value, whitespace(r.rest)) ELSE r
    IN  spaced(style_prop_inner(s))

\* parser.parse(input): the parser, then the end of the input
parse(result) ==
    IF result.ok /\ result.rest # <<>> THEN Backtrack(result.rest) ELSE result

-----------------------------------------------------------------------------
(* Declarations `name: value;` given to style_prop. *)

\* The most lengths of a rect shorthand.
MaxLengths == 4
\* The most digits of a hex color.
MaxHexDigits == 8

\* Lengths as written, with the Val each stands for.
LengthSamples ==
    {[text |-> <<"1", "px">>, val |-> Px(1)], [text |-> <<"2", "px">>, val |-> Px(2)],
     [text |-> <<"3">>, val |-> Px(3)], [text |-> <<"4", "%">>, val |-> Val("Percent", 4)]}

SeqsUpTo(S, lo, hi) == UNION {[1..n -> S] : n \in lo..hi}

\* The values of the declarations: lists of lengths, hex colors, functional
\* colors with three or four channels, keywords, a string.
DeclValues ==
    {[kind |-> "lengths", parts |-> q] : q \in SeqsUpTo(LengthSamples, 1, MaxLengths)}
    \cup {[kind |-> "hex", digits |-> q] : q \in SeqsUpTo({"0", "f"}, 1, MaxHexDigits)}
    \cup {[kind |-> "color_fn", fn |-> f, args |-> q, sep |-> sep] :
            f \in {"rgb", "rgba", "hsl", "hsla"}, q \in SeqsUpTo({0, 1}, 3, 4),
            sep \in {<<",", " ">>, <<" ">>, <<" ", "/", " ">>}}
    \cup {[kind |-> "ident", id |-> w] : w \in {"flex", "auto", "transparent", "bogus"}}
    \cup {[kind |-> "string", chars |-> <<"a">>]}

DeclNames == KnownProps \cup {"foo"}

\* The text of a value.
RECURSIVE JoinTexts(_, _)
JoinTexts(texts, sep) ==
    IF texts = <<>> THEN <<>>
    ELSE IF Len(texts) = 1 THEN texts[1]
    ELSE texts[1] \o sep \o JoinTexts(Tail(texts), sep)
NumberText(n) == IF n = 0 THEN <<"0">> ELSE <<"1">>
ValueText(v) ==
    CASE v.kind = "lengths" -> JoinTexts([i \in DOMAIN v.parts |-> v.parts[i].text], <<" ">>)
      [] v.kind = "hex" -> <<"#">> \o v.digits
      [] v.kind = "color_fn" ->
            (IF v.fn \in {"rgb", "rgba"} THEN <<"rgb">> ELSE <<"hsl">>)
                \o (IF v.fn \in {"rgba", "hsla"} THEN <<"a">> ELSE <<>>)
                \o <<"(">>
                \o JoinTexts([i \in 1..3 |-> NumberText(v.args[i])],
                             IF v.sep = <<",", " ">> THEN v.sep ELSE <<" ">>)
                \o (IF Len(v.args) = 4 THEN v.sep \o NumberText(v.args[4]) ELSE <<>>)
                \o <<")">>
      [] v.kind = "ident" -> <<v.id>>
      [] v.kind = "string" -> <<"\"">> \o v.chars \o <<"\"">>
DeclText(name, v) == <<name, ":", " ">> \o ValueText(v) \o <<";">>

\* style_prop.parse(input) on a declaration
ParseStyleProp(name, v) ==
    /\ last' = [op |-> "style_prop", name |-> name, value |-> v, input |-> DeclText(name, v),
                result |-> parse(style_prop(DeclText(name, v)))]
    /\ UNCHANGED <<palette, zIndex, parent, elementStyles, stylesChanged, classes, classesChanged, text,
                   textChanged, textStyles, style, animatedLayout, transform,
                   animatedTransform, focus, focus_prev, hover, hover_prev, commands,
                   ran, delta, obs, events>>

NextStyle ==
    last.op = "spawn" /\ \E name \in DeclNames : \E v \in DeclValues : ParseStyleProp(name, v)

SpecStyle == InitScene(SceneChain) /\ [][NextStyle]_vars

-----------------------------------------------------------------------------
(* Rect shorthand. *)

\* The rect that CSS order gives to N lengths: one for all four sides; (v h);
\* (t h b); (t r b l).
CssRect(v) ==
    CASE Len(v) = 1 -> [left |-> v[1], right |-> v[1], top |-> v[1], bottom |-> v[1]]
      [] Len(v) = 2 -> [left |-> v[2], right |-> v[2], top |-> v[1], bottom |-> v[1]]
      [] Len(v) = 3 -> [left |-> v[2], right |-> v[2], top |-> v[1], bottom |-> v[3]]
      [] Len(v) = 4 -> [left |-> v[4], right |-> v[2], top |-> v[1], bottom |-> v[3]]

IsRectShorthand(n) ==
    /\ last.op = "style_prop"
    /\ last.name \in RectProps
    /\ last.value.kind = "lengths"
    /\ Len(last.value.parts) = n

RectShorthandYieldsCssRect ==
    /\ last.result.ok
    /\ last.result.value =
           StyleProp(Variant(last.name),
                     CssRect([i \in DOMAIN last.value.parts |-> last.value.parts[i].val]))

\* C16: a margin/padding/border declaration with N space-separated lengths is
\* accepted for every N in 1..4 and yields the rect given by CSS order.
C16_RectShorthand ==
    (\E n \in 1..4 : IsRectShorthand(n)) => RectShorthandYieldsCssRect

\* The same for one, two and three lengths only.
RectShorthandUpToThree ==
    (\E n \in 1..3 : IsRectShorthand(n)) => RectShorthandYieldsCssRect

\* Four lengths are never accepted.
RectShorthandOfFourFails == IsRectShorthand(4) => ~last.result.ok

-----------------------------------------------------------------------------
(* Hex colors. *)

\* #RGB and #RGBA stand for #RRGGBB and #RRGGBBAA with each digit doubled; a
\* color without alpha digits is opaque.
DoubledDigits(d) == [i \in 1..(2 * Len(d)) |-> d[(i + 1) \div 2]]
LongForm(d) ==
    LET long == IF Len(d) \in {3, 4} THEN DoubledDigits(d) ELSE d
    IN  IF Len(long) = 6 THEN long \o <<"f", "f">> ELSE long
Channel(d, i) == 16 * HexValue(d[2 * i - 1]) + HexValue(d[2 * i])
HexChannels(d) ==
    LET long == LongForm(d)
    IN  Rgba(Channel(long, 1), Channel(long, 2), Channel(long, 3), Channel(long, 4))

IsHexColorDecl(n) ==
    /\ last.op = "style_prop"
    /\ last.name \in ColorProps
    /\ last.value.kind = "hex"
    /\ Len(last.value.digits) = n

HexYieldsChannels ==
    /\ last.result.ok
    /\ last.result.value = StyleProp(Variant(last.name), Some(HexChannels(last.value.digits)))

\* C17: `#` followed by 3, 4, 6 or 8 hexadecimal digits is accepted in a
\* color-valued declaration and yields Some(color) with the corresponding
\* channels.
C17_HexColors ==
    (\E n \in {3, 4, 6, 8} : IsHexColorDecl(n)) => HexYieldsChannels

\* The same for 3, 4 and 6 digits only.
HexColorsUpToSix ==
    (\E n \in {3, 4, 6} : IsHexColorDecl(n)) => HexYieldsChannels

\* Eight digits are never accepted.
HexColorOfEightFails == IsHexColorDecl(8) => ~last.result.ok

-----------------------------------------------------------------------------
(* Functional colors. *)

IsColorFnDecl(names) ==
    /\ last.op = "style_prop"
    /\ last.name \in ColorProps
    /\ last.value.kind = "color_fn"
    /\ last.value.fn \in names

\* The function name without its trailing `a`.
BaseFn(f) == IF f = "rgba" THEN "rgb" ELSE IF f = "hsla" THEN "hsl" ELSE f

\* C18: functional notation is accepted under each of the names rgb, rgba,
\* hsl and hsla, and rgba(r, g, b, a) (hsla(h, s, l, a)) yields the same color
\* as the four-channel rgb(r, g, b, a) (hsl(h, s, l, a)).
C18_FunctionalColors ==
    IsColorFnDecl({"rgb", "rgba", "hsl", "hsla"}) =>
        /\ last.result.ok
        /\ Len(last.value.args) = 4 =>
               last.result.value =
                   parse(style_prop(DeclText(last.name,
                       [last.value EXCEPT !.fn = BaseFn(last.value.fn)]))).value

\* rgb and hsl are accepted with three and with four channels.
RgbAndHslAccepted == IsColorFnDecl({"rgb", "hsl"}) => last.result.ok

\* rgba and hsla are never accepted.
RgbaAndHslaFail == IsColorFnDecl({"rgba", "hsla"}) => ~last.result.ok

-----------------------------------------------------------------------------
(* Classification of the errors of a declaration. *)

\* The values the grammar of the style sheets admits.
SyntacticallyValid(v) ==
    CASE v.kind = "lengths" -> Len(v.parts) \in 1..4
      [] v.kind = "hex" -> Len(v.digits) \in {3, 4, 6, 8}
      [] OTHER -> TRUE

\* The syntactic kind of a value.
KindOf(v) ==
    CASE v.kind = "lengths" -> IF Len(v.parts) = 1 THEN "length" ELSE "list"
      [] v.kind \in {"hex", "color_fn"} -> "color"
      [] OTHER -> v.kind

\* The kinds of value other than a keyword that a property takes.
KindsFor(name) ==
    CASE name \in ColorProps -> {"color"}
      [] name \in ValProps -> {"length"}
      [] name \in RectProps -> {"length", "list"}
      [] name \in DisplayProps -> {}

\* The keywords a property takes.
KeywordsFor(name) ==
    CASE name \in ColorProps -> {"transparent"}
      [] name \in ValProps -> {"auto"}
      [] name \in RectProps -> {"auto"}
      [] name \in DisplayProps -> {"flex", "grid", "none"}

FailsWith(kind) == ~last.result.ok /\ "err" \in DOMAIN last.result /\ last.result.err # <<>>
                       /\ last.result.err[1] = kind

Classified ==
    /\ last.name \notin KnownProps =>
           FailsWith("InvalidPropertyName") /\ last.result.err[2] = last.name
    /\ (last.name \in KnownProps /\ KindOf(last.value) # "ident"
            /\ KindOf(last.value) \notin KindsFor(last.name)) =>
           FailsWith("InvalidPropertyType")
    /\ (last.name \in ValProps \cup RectProps \cup DisplayProps
            /\ KindOf(last.value) = "ident" /\ last.value.id \notin KeywordsFor(last.name)) =>
           FailsWith("InvalidPropertyValue")

\* C19: for every declaration with a syntactically valid value, an unknown
\* name fails with InvalidPropertyName naming it, a known name with a value of
\* the wrong syntactic kind fails with InvalidPropertyType, and a known enum-
\* or length-valued name with an unrecognised keyword fails with
\* InvalidPropertyValue.
C19_ErrorsClassified ==
    (last.op = "style_prop" /\ SyntacticallyValid(last.value)) => Classified

\* The values that the value parser takes whole: not four lengths, not eight
\* hex digits, not rgba or hsla.
ValueParses(v) ==
    /\ SyntacticallyValid(v)
    /\ v.kind = "lengths" => Len(v.parts) <= 3
    /\ v.kind = "hex" => Len(v.digits) # 8
    /\ v.kind = "color_fn" => v.fn \in {"rgb", "hsl"}

\* The errors are classified whenever the value parser takes the value whole.
ClassifiedWhenValueParses ==
    (last.op = "style_prop" /\ ValueParses(last.value)) => Classified

-----------------------------------------------------------------------------
(* style_parser.rs: blocks and style sheets. *)

\* selector_prop_list_items: repeat(.., style_prop).  A backtrack of the
\* element ends the list where the element began; a cut error is the result.
RECURSIVE selector_prop_list_items(_, _)
selector_prop_list_items(s, acc) ==
    LET next(r) ==
            IF r.ok THEN selector_prop_list_items(r.rest, Append(acc, r.value))
            ELSE IF r.cut THEN r
            ELSE Ok(acc, s)
    IN  next(style_prop(s))

\* selector: (selector_parser, whitespace, '{', cut_err((whitespace,
\* selector_prop_list_items, '}', whitespace))) as a SelectorEntry
selector(s) ==
    LET close(sel, items) ==
            IF ~items.ok THEN items
            ELSE IF items.rest = <<>> \/ items.rest[1] # "}"
            THEN Cut(<<"expected", "selector">>, items.rest)
            ELSE Ok(<<sel.value, items.value>>, whitespace(Drop(items.rest, 1)))
        open(sel, s1) ==
            IF s1 = <<>> \/ s1[1] # "{" THEN Backtrack(s)
            ELSE close(sel, selector_prop_list_items(whitespace(Drop(s1, 1)), <<>>))
        selected(sel) == open(sel, whitespace(sel.rest))
    IN  selected(selector_parser(s))

\* One element of style_prop_list_items: alt((style_prop, selector)), each
\* mapped to its StylePropOrSelector variant.
prop_or_selector(s) ==
    LET mapped(r, variant) == IF r.ok THEN Ok(<<variant, r.value>>, r.rest) ELSE r
    IN  alt_cut(<<mapped(style_prop(s), "StyleProp"), mapped(selector(s), "Selector")>>)

\* The repeat(.., ..) of style_prop_list_items with CSS error recovery in
\* place of the cut error: a faulty declaration is skipped up to the next
\* semicolon or brace.
RECURSIVE skip_declaration(_)
skip_declaration(s) ==
    IF s = <<>> \/ s[1] = "}" THEN s
    ELSE IF s[1] = ";" THEN whitespace(Drop(s, 1))
    ELSE skip_declaration(Drop(s, 1))
RECURSIVE style_prop_list_items_recovering(_, _)
style_prop_list_items_recovering(s, acc) ==
    LET next(r) ==
            IF r.ok THEN style_prop_list_items_recovering(r.rest, Append(acc, r.value))
            ELSE IF r.cut THEN style_prop_list_items_recovering(skip_declaration(s), acc)
            ELSE Ok(acc, s)
    IN  next(prop_or_selector(s))

\* style_prop_list_items: repeat(.., alt((style_prop, selector)))
RECURSIVE style_prop_list_items(_, _)
style_prop_list_items(s, acc) ==
    LET next(r) ==
            IF r.ok THEN style_prop_list_items(r.rest, Append(acc, r.value))
            ELSE IF r.cut THEN r
            ELSE Ok(acc, s)
    IN  next(prop_or_selector(s))

\* The items of one variant, in their order (items.drain(..) and the match).
ItemsOf(items, variant) ==
    LET payloads(chosen) == [i \in DOMAIN chosen |-> chosen[i][2]]
    IN  payloads(SelectSeq(items, LAMBDA item : item[1] = variant))

\* style_prop_list: (ident, whitespace, '{', cut_err((whitespace,
\* style_prop_list_items, '}'))) as a (name, StylePropList)
style_prop_list(s) ==
    LET close(name, items) ==
            IF ~items.ok THEN items
            ELSE IF items.rest = <<>> \/ items.rest[1] # "}"
            THEN Cut(<<"parse error">>, items.rest)
            ELSE Ok(<<name.value[2],
                      StylePropList(ItemsOf(items.value, "StyleProp"),
                                    ItemsOf(items.value, "Selector"))>>,
                    Drop(items.rest, 1))
        open(name, s1) ==
            IF s1 = <<>> \/ s1[1] # "{" THEN Backtrack(s)
            ELSE close(name, style_prop_list_items(whitespace(Drop(s1, 1)), <<>>))
        named(name) == IF ~name.ok THEN Backtrack(s) ELSE open(name, whitespace(name.rest))
    IN  named(ident(s))

\* The repeat(.., (whitespace, style_prop_list)) of stylesheet
RECURSIVE style_prop_lists(_, _)
style_prop_lists(s, acc) ==
    LET next(r) ==
            IF r.ok THEN style_prop_lists(r.rest, Append(acc, r.value))
            ELSE IF r.cut THEN r
            ELSE Ok(acc, s)
    IN  next(style_prop_list(whitespace(s)))

\* stylesheet: the blocks, whitespace, eof
stylesheet(s) ==
    LET end(entries, rest) == IF rest # <<>> THEN Backtrack(rest) ELSE Ok(entries.value, <<>>)
        listed(entries) ==
            IF ~entries.ok THEN entries ELSE end(entries, whitespace(entries.rest))
    IN  listed(style_prop_lists(s, <<>>))

\* parse_stylesheet: stylesheet.parse(input), a Result
parse_stylesheet(input) ==
    LET result(r) ==
            IF r.ok THEN [ok |-> TRUE, value |-> r.value]
            ELSE [ok |-> FALSE, err |-> r.err, at |-> r.rest]
    IN  result(parse(stylesheet(input)))

-----------------------------------------------------------------------------
(* Style sheets given to parse_stylesheet. *)

\* The most named blocks of a style sheet.
MaxBlocks == 2

\* Declarations and nested selectors that parse and coerce.
GoodItems ==
    {[text |-> <<"width", ":", " ", "1", "px", ";">>, faulty |-> FALSE],
     [text |-> <<".", "a", " ", "{", " ", "color", ":", " ", "#", "f", "f", "f", ";", " ", "}">>,
      faulty |-> FALSE]}

\* Declarations and nested selectors that fail to parse or to coerce: an
\* unknown name, a color for a length, an unknown keyword, a missing
\* semicolon, a nested selector without a name, a nested selector with an
\* unknown name.
FaultyItems ==
    {[text |-> <<"foo", ":", " ", "1", "px", ";">>, faulty |-> TRUE],
     [text |-> <<"height", ":", " ", "#", "f", "f", "f", ";">>, faulty |-> TRUE],
     [text |-> <<"display", ":", " ", "bogus", ";">>, faulty |-> TRUE],
     [text |-> <<"width", ":", " ", "1", "px">>, faulty |-> TRUE],
     [text |-> <<".", " ", "{", " ", "}">>, faulty |-> TRUE],
     [text |-> <<".", "a", " ", "{", " ", "foo", ":", " ", "1", "px", ";", " ", "}">>,
      faulty |-> TRUE]}

Items == GoodItems \cup FaultyItems

\* The bodies of a block: no item, one item, or two of which one is good.
BlockBodies ==
    {<<>>} \cup {<<i>> : i \in Items}
        \cup {<<i, j>> : i \in GoodItems, j \in Items}
        \cup {<<i, j>> : i \in Items, j \in GoodItems}

Sheets == UNION {[1..n -> BlockBodies] : n \in 1..MaxBlocks}

BlockName(k) == IF k % 2 = 1 THEN "MAIN" ELSE "SIDE"

\* The text of a style sheet: `NAME { item item }` block after block, with a
\* comment line before the second block.
BodyText(body) == JoinTexts([i \in DOMAIN body |-> body[i].text], <<"\n", " ">>)
BlockText(k, body) ==
    (IF k = 2 THEN <<"//", "foo", "\n">> ELSE <<>>)
        \o <<BlockName(k), " ", "{", "\n", " ">> \o BodyText(body) \o <<"\n", "}", "\n">>
SheetText(sheet) == Flatten([k \in DOMAIN sheet |-> BlockText(k, sheet[k])])

\* parse_stylesheet(input) on a style sheet
ParseStylesheet(sheet) ==
    /\ last' = [op |-> "parse_stylesheet", sheet |-> sheet, input |-> SheetText(sheet),
                result |-> parse_stylesheet(SheetText(sheet))]
    /\ UNCHANGED <<palette, zIndex, parent, elementStyles, stylesChanged, classes, classesChanged, text,
                   textChanged, textStyles, style, animatedLayout, transform,
                   animatedTransform, focus, focus_prev, hover, hover_prev, commands,
                   ran, delta, obs, events>>

NextSheet == last.op = "spawn" /\ \E sheet \in Sheets : ParseStylesheet(sheet)

SpecSheet == InitScene(SceneChain) /\ [][NextSheet]_vars

\* Some declaration or nested selector of some block is faulty.
AnyFaulty(sheet) == \E k \in DOMAIN sheet : \E i \in DOMAIN sheet[k] : sheet[k][i].faulty

\* The (name, StylePropList) pairs that a call hands to its caller.
PairsOf(result) == IF result.ok THEN result.value ELSE <<>>

\* C20: if any declaration or nested selector in any named block fails to
\* parse or coerce, parse_stylesheet returns an error and no (name,
\* StylePropList) pair at all, including for the blocks that precede the
\* faulty one.
C20_AllOrNothing ==
    (last.op = "parse_stylesheet" /\ AnyFaulty(last.sheet)) =>
        ~last.result.ok /\ PairsOf(last.result) = <<>>

\* A style sheet whose first block is sound and whose second block holds a
\* faulty declaration was compiled: the result is an error.
C20_Witness ==
    /\ last.op = "parse_stylesheet"
    /\ Len(last.sheet) = 2
    /\ last.sheet[1] # <<>>
    /\ \A i \in DOMAIN last.sheet[1] : ~last.sheet[1][i].faulty
    /\ \E i \in DOMAIN last.sheet[2] : last.sheet[2][i].faulty
    /\ parse_stylesheet(BlockText(1, last.sheet[1])).ok
    /\ ~last.result.ok

\* A style sheet without a faulty item compiles to one pair for each block,
\* in the order of the blocks.
SoundSheetCompiles ==
    (last.op = "parse_stylesheet" /\ ~AnyFaulty(last.sheet)) =>
        /\ last.result.ok
        /\ Len(last.result.value) = Len(last.sheet)
        /\ \A k \in DOMAIN last.sheet :
               /\ last.result.value[k][1] = BlockName(k)
               /\ Len(last.result.value[k][2].props) + Len(last.result.value[k][2].selectors)
                      = Len(last.sheet[k])

-----------------------------------------------------------------------------
(* The selector-function specification: Selector::depth and                   *)
(* Selector::uses_focus_within are called on selectors built from every      *)
(* link, with Parent steps and alternatives.                                  *)

FocusBranches ==
    {Accept, Hover(Accept), FocusWithin(Accept), Class("a", FocusWithin(Accept)),
     Class("a", Hover(Accept)), Parent(FocusWithin(Accept)), Parent(Parent(Accept))}

FnSelectors ==
    MatchSelectors
        \cup {Either(<<s, t>>) : s \in FocusBranches, t \in FocusBranches}
        \cup {Parent(Either(<<>>)), Either(<<Accept, Either(<<>>)>>)}

\* sel.depth()
CallDepth(sel) ==
    /\ last' = [op |-> "depth", selector |-> sel, result |-> depth(sel)]
    /\ UNCHANGED <<palette, zIndex, parent, elementStyles, stylesChanged, classes, classesChanged, text,
                   textChanged, textStyles, style, animatedLayout, transform,
                   animatedTransform, focus, focus_prev, hover, hover_prev, commands,
                   ran, delta, obs, events>>

\* sel.uses_focus_within()
CallUsesFocusWithin(sel) ==
    /\ last' = [op |-> "uses_focus_within", selector |-> sel,
                result |-> uses_focus_within(sel)]
    /\ UNCHANGED <<palette, zIndex, parent, elementStyles, stylesChanged, classes, classesChanged, text,
                   textChanged, textStyles, style, animatedLayout, transform,
                   animatedTransform, focus, focus_prev, hover, hover_prev, commands,
                   ran, delta, obs, events>>

NextSelFns ==
    \/ \E sel \in FnSelectors : CallDepth(sel)
    \/ \E sel \in FnSelectors : CallUsesFocusWithin(sel)

SpecSelFns == InitScene(SceneChain) /\ [][NextSelFns]_vars

\* The ends of the chains of a selector, walked from its head: for each end
\* the Parent hops passed on the way and whether the end is Accept (an Either
\* without options ends a chain without reaching Accept).
RECURSIVE ChainEnds(_, _)
ChainEnds(sel, hops) ==
    CASE sel[1] = "Accept" -> {<<hops, TRUE>>}
      [] sel[1] = "Class" -> ChainEnds(sel[3], hops)
      [] sel[1] = "Parent" -> ChainEnds(sel[2], hops + 1)
      [] sel[1] = "Either" ->
            IF sel[2] = <<>> THEN {<<hops, FALSE>>}
            ELSE UNION {ChainEnds(sel[2][i], hops) : i \in DOMAIN sel[2]}
      [] OTHER -> ChainEnds(sel[2], hops)

\* The number of Parent hops of a selector: the maximum over its chains.
ParentHops(sel) == SetMax({end[1] : end \in ChainEnds(sel, 0)}, 0)

\* The number of nodes a selector inspects: on each chain that reaches Accept
\* the node itself and one node for each Parent hop.
NodesInspected(sel) ==
    SetMax({end[1] + (IF end[2] THEN 1 ELSE 0) : end \in ChainEnds(sel, 0)}, 0)

\* C21 as stated: depth(s) is the number of Parent hops on the chain of s (the
\* maximum over the branches of an Either), so that a selector without a
\* Parent step has depth 0.
C21_DepthIsParentHops ==
    last.op = "depth" => last.result = ParentHops(last.selector)

\* C21: depth(s) is one plus the number of Parent hops on the chain of s, the
\* maximum over the branches of an Either (a chain that ends in an Either
\* without options counts its Parent hops only): a selector without a Parent
\* step has depth 1.
C21_DepthIsOnePlusParentHops ==
    last.op = "depth" => last.result = NodesInspected(last.selector)

\* depth was called on an Either whose branches differ in their Parent hops.
C21_Witness ==
    /\ last.op = "depth"
    /\ last.selector[1] = "Either"
    /\ Len(last.selector[2]) = 2
    /\ ParentHops(last.selector[2][1]) = 0
    /\ ParentHops(last.selector[2][2]) = 2
    /\ last.result = 3

\* Whether a selector holds a FocusWithin link, anywhere in its chain or in a
\* branch of an Either.
RECURSIVE ContainsFocusWithin(_)
ContainsFocusWithin(sel) ==
    CASE sel[1] = "Accept" -> FALSE
      [] sel[1] = "FocusWithin" -> TRUE
      [] sel[1] = "Class" -> ContainsFocusWithin(sel[3])
      [] sel[1] = "Either" -> \E i \in DOMAIN sel[2] : ContainsFocusWithin(sel[2][i])
      [] OTHER -> ContainsFocusWithin(sel[2])

\* C26: uses_focus_within(s) is true exactly when s holds a FocusWithin link
\* anywhere in its chain or in any branch of an Either; it is false for a
\* selector without one, such as a selector that only holds Hover.
C26_UsesFocusWithinExact ==
    last.op = "uses_focus_within" => last.result = ContainsFocusWithin(last.selector)

-----------------------------------------------------------------------------
(* Change detection on the nodes of the walk *)

\* The state changes of node a that concern a node styled by `styles`.
StateChanged(styles, a) ==
    \/ es_uses_hover(styles) /\ is_hovering(a) # was_hovering(a)
    \/ is_focused(a) # was_focused(a)
    \/ is_focus_visible(a) # was_focus_visible(a)
    \/ es_uses_focus_within(styles) /\ is_focus_within(a) # was_focus_within(a)
    \/ classesChanged[a]

\* The state update_styles reads: the frame has begun and the pass has not run.
BeforePass == "pre_update" \in ran /\ "update_styles" \notin ran

\* C25: when update_styles runs, is_changed returns true for a styled node
\* when the state of a node within selector_depth levels of it (the node
\* itself first) has changed, whether or not that node carries ElementClasses:
\* its hover differs and the list uses hover, or its focus or focus-visible
\* differs, or its focus-within differs and the list uses focus-within, or its
\* class set was mutated.
C25_DetectsOnEveryNode ==
    BeforePass =>
        \A e \in Entities : IsSome(elementStyles[e]) =>
            LET styles == Unwrap(elementStyles[e])
            IN  \A level \in 0..(selector_depth(styles) - 1) :
                    (Ancestor(e, level) # 0 /\ StateChanged(styles, Ancestor(e, level)))
                        => is_changed(e)

\* The same for the nodes of the walk that carry ElementClasses.
DetectsOnClassedNodes ==
    BeforePass =>
        \A e \in Entities : IsSome(elementStyles[e]) =>
            LET styles == Unwrap(elementStyles[e])
            IN  \A level \in 0..(selector_depth(styles) - 1) :
                    (/\ Ancestor(e, level) # 0
                     /\ IsSome(classes[Ancestor(e, level)])
                     /\ StateChanged(styles, Ancestor(e, level)))
                        => is_changed(e)

-----------------------------------------------------------------------------
(* The delay specification: the transition specification with width          *)
(* transitions that declare a delay.                                          *)

Delays == {1, 2}

\* Transition { delay, .. }
Delayed(tr, dl) == [tr EXCEPT !.delay = dl]

DelayPalettes ==
    {LayoutLists(Delayed(Transition("Width", d, f), dl)) :
        d \in Durations, f \in Timings, dl \in Delays}

InitDelay == \E lists \in DelayPalettes : \E first \in lists : InitScene(SceneOne(lists, first))

SpecDelay == InitDelay /\ [][NextAnim]_vars

\* C22: a transition with a delay d > 0 holds the animated value at the origin
\* while less than d seconds of frame time have passed since it was created
\* or restarted: in such a frame animate_layout leaves the clock at 0 and the
\* Style at the origin.
C22_DelayHoldsOrigin ==
    [][IsAnimateLayout =>
        \A e \in Entities : \A p \in DOMAIN animatedLayout[e] :
            (/\ animatedLayout[e][p].state.transition.delay > 0
             /\ animatedLayout[e][p].state.clock = 0
             /\ obs.elapsed[e] + delta < animatedLayout[e][p].state.transition.delay)
                => /\ animatedLayout'[e][p].state.clock = 0
                   /\ style'[e][p] = style[e][p]]_vars

-----------------------------------------------------------------------------
(* The prop specification: AnimatedLayoutProp::update and restart_if_changed  *)
(* are called on a prop in any state of its clock, with any transition        *)
(* property, delta and force.                                                 *)

PropValues == {0, PxHi}
Styles == {[p \in LayoutProps |-> w] : w \in WidthValues}

\* The AnimatedLayoutProp values for a transition on prop.
Props(prop) ==
    {[state |-> [transition |-> Transition(prop, d, f), clock |-> c], origin |-> o, target |-> g] :
        d \in Durations, f \in Timings, c \in 0..ClockDen, o \in PropValues, g \in PropValues}

\* ap.update(prop, &mut st, d, force)
CallUpdate(ap, prop, st, d, force) ==
    /\ last' = [op |-> "update", ap |-> ap, prop |-> prop, style |-> st, delta |-> d,
                force |-> force, result |-> update(ap, prop, st, d, force)]
    /\ UNCHANGED <<palette, zIndex, parent, elementStyles, stylesChanged, classes, classesChanged, text,
                   textChanged, textStyles, style, animatedLayout, transform,
                   animatedTransform, focus, focus_prev, hover, hover_prev, commands,
                   ran, delta, obs, events>>

\* ap.restart_if_changed(prop, &prev, &next)
CallRestartIfChanged(ap, prop, prev, next) ==
    /\ last' = [op |-> "restart_if_changed", ap |-> ap, prop |-> prop, style |-> prev,
                next |-> next,
                result |-> IF restart_if_changed_panics(prop)
                           THEN [ap |-> ap, style |-> prev, panicked |-> TRUE]
                           ELSE [ap |-> restart_if_changed(ap, prop, prev, next),
                                 style |-> prev, panicked |-> FALSE]]
    /\ UNCHANGED <<palette, zIndex, parent, elementStyles, stylesChanged, classes, classesChanged, text,
                   textChanged, textStyles, style, animatedLayout, transform,
                   animatedTransform, focus, focus_prev, hover, hover_prev, commands,
                   ran, delta, obs, events>>

NextProp ==
    \/ last.op = "spawn" /\
            \E prop \in LayoutProps \cup InvalidProps : \E ap \in Props(prop) :
                \E st \in Styles : \E d \in Deltas : \E force \in BOOLEAN :
                    CallUpdate(ap, prop, st, d, force)
    \/ last.op = "spawn" /\
            \E prop \in LayoutProps \cup InvalidProps : \E ap \in Props(prop) :
                \E prev \in Styles : \E next \in Styles :
                    CallRestartIfChanged(ap, prop, prev, next)

SpecProp == InitScene(SceneChain) /\ [][NextProp]_vars

\* C23: update and restart_if_changed, called with the property Transform,
\* BackgroundColor or BorderColor, panic in every state of the prop and for
\* every delta and force, and leave the Style as it was.
C23_InvalidPropPanics ==
    (last.op \in {"update", "restart_if_changed"} /\ last.prop \in InvalidProps) =>
        last.result.panicked /\ last.result.style = last.style

\* The same for restart_if_changed alone, and for update when it is forced or
\* the eased progress differs from the clock before the call.
InvalidPropPanicsOnWrite ==
    /\ (last.op = "restart_if_changed" /\ last.prop \in InvalidProps) =>
            last.result.panicked /\ last.result.ap = last.ap
    /\ (last.op = "update" /\ last.prop \in InvalidProps) =>
            /\ last.result.style = last.style
            /\ last.result.panicked <=>
                    \/ last.force
                    \/ eval(last.ap.state.transition.timing, last.result.ap.state.clock) * ClockDen
                            # last.ap.state.clock * TDen

\* C24: update with force = false writes the Style exactly when the eased
\* progress timing(clock) after advancing differs from the eased progress
\* before advancing, for every timing function; with force = true it always
\* writes; the value written is target * t + origin * (1 - t) with t the eased
\* progress after advancing.
C24_WritesWhenProgressChanges ==
    (last.op = "update" /\ last.prop \in LayoutProps) =>
        LET timing == last.ap.state.transition.timing
            before == eval(timing, last.ap.state.clock)
            after == eval(timing, last.result.ap.state.clock)
        IN  /\ ~last.force => (last.result.wrote <=> after # before)
            /\ last.force => last.result.wrote
            /\ last.result.wrote =>
                    last.result.style[last.prop] = Px(Lerp(last.ap.origin, last.ap.target, after))
            /\ ~last.result.wrote => last.result.style = last.style

\* The same with the comparison the code makes: the eased progress after
\* advancing against the clock before advancing.
WritesWhenProgressDiffersFromClock ==
    (last.op = "update" /\ last.prop \in LayoutProps) =>
        LET timing == last.ap.state.transition.timing
            after == eval(timing, last.result.ap.state.clock)
        IN  /\ ~last.force => (last.result.wrote <=> after * ClockDen # last.ap.state.clock * TDen)
            /\ last.force => last.result.wrote
            /\ last.result.wrote =>
                    last.result.style[last.prop] = Px(Lerp(last.ap.origin, last.ap.target, after))
            /\ ~last.result.wrote => last.result.style = last.style

-----------------------------------------------------------------------------
(* Finished transitions *)

\* C30: a finished transition is quiescent: once the clock of a layout prop
\* is 1, an animate_layout tick with any non-negative delta leaves the clock
\* at 1 and does not write the Style, for each of the four timing functions
\* (the target only changes in an apply, never in a tick).
C30_FinishedIsQuiescent ==
    [][IsAnimateLayout =>
        \A e \in Entities : \A p \in DOMAIN animatedLayout[e] :
            animatedLayout[e][p].state.clock = ClockDen =>
                /\ animatedLayout'[e][p].state.clock = ClockDen
                /\ animatedLayout'[e][p].target = animatedLayout[e][p].target
                /\ ~update(animatedLayout[e][p], p, style[e], delta, FALSE).wrote
                /\ style'[e][p] = style[e][p]]_vars

\* animate_layout has ticked with a positive delta on a node whose ease-in-out
\* transition of duration 1 had already run for its duration: the clock is 1
\* and the Style holds another value than the prop's target.
C30_Witness ==
    /\ last.op = "animate_layout"
    /\ delta = 1
    /\ \E e \in Entities : \E p \in DOMAIN animatedLayout[e] :
            /\ animatedLayout[e][p].state.transition.duration = 1
            /\ animatedLayout[e][p].state.transition.timing = "ease-in-out"
            /\ animatedLayout[e][p].state.clock = ClockDen
            /\ obs.elapsed[e] = 2
            /\ style[e][p] # Px(animatedLayout[e][p].target)

-----------------------------------------------------------------------------
(* Non-pixel values under a layout transition *)

\* C29: when UpdateComputedStyle is applied to a node that has a layout
\* transition on P and the newly cascaded value of P is not a pixel length,
\* the transition is not restarted (origin and target stay, the clock is not
\* set back) and the Style holds the cascaded non-pixel value of P afterwards.
C29_NonPixelValueApplied ==
    [][IsFlush =>
        \A e \in Entities : \A p \in DOMAIN animatedLayout[e] : \A c \in QueuedFor(e) :
            c.style[p].k # "Px" =>
                /\ animatedLayout'[e][p].origin = animatedLayout[e][p].origin
                /\ animatedLayout'[e][p].target = animatedLayout[e][p].target
                /\ animatedLayout'[e][p].state.clock >= animatedLayout[e][p].state.clock
                /\ style'[e][p] = c.style[p]]_vars

\* The first half alone: a non-pixel value never restarts the transition; and
\* the Style holds the cascaded value when the transition is no longer declared.
NonPixelValueNeverRestarts ==
    [][IsFlush =>
        \A e \in Entities : \A p \in DOMAIN animatedLayout[e] : \A c \in QueuedFor(e) :
            c.style[p].k # "Px" =>
                /\ animatedLayout'[e][p].origin = animatedLayout[e][p].origin
                /\ animatedLayout'[e][p].target = animatedLayout[e][p].target
                /\ animatedLayout'[e][p].state.clock >= animatedLayout[e][p].state.clock
                /\ ~is_animated_layout(c) => style'[e][p] = c.style[p]]_vars

-----------------------------------------------------------------------------
(* The mixed specification: the transition specification with lists that     *)
(* set a pixel width and a scale and list no transition, one on Transform,   *)
(* or one on Width and one on Transform, in either order.                     *)

TransitionLists(d) ==
    {<<>>,
     <<Transition("Transform", d, "ease-in")>>,
     <<Transition("Width", d, "linear"), Transition("Transform", d, "ease-in")>>,
     <<Transition("Transform", d, "ease-in"), Transition("Width", d, "linear")>>}

MixedLists(d) ==
    {<<StylePropList(<<StyleProp("Width", w), StyleProp("ScaleX", x)>>
                        \o (IF trs = <<>> THEN <<>> ELSE <<StyleProp("Transition", trs)>>),
                     <<>>)>> :
        w \in {Px(0), Px(PxHi)}, x \in {2 * ScaleOne}, trs \in TransitionLists(d)}

InitMixed ==
    \E d \in {1, 2} : \E first \in MixedLists(d) : InitScene(SceneOne(MixedLists(d), first))

SpecMixed == InitMixed /\ [][NextAnim]_vars

\* C28: the keys of an AnimatedLayout map are layout properties only, whatever
\* transitions the applied ComputedStyle lists, so neither restart_if_changed
\* nor update (as apply calls it, forced, and as animate_layout calls it, with
\* any delta) reaches the `Invalid style transition prop` panic.
C28_LayoutKeysOnly ==
    \A e \in Entities : \A p \in DOMAIN animatedLayout[e] :
        /\ p \in LayoutProps
        /\ ~restart_if_changed_panics(p)
        /\ \A d \in Deltas : \A force \in BOOLEAN :
                ~update(animatedLayout[e][p], p, style[e], d, force).panicked

\* The first apply was of a list with a transition on Transform before one on
\* Width: the node has an AnimatedTransform and an AnimatedLayout whose only
\* key is Width.
C28_Witness ==
    /\ last.op = "apply_deferred"
    /\ events = 0
    /\ \E e \in Entities :
            /\ IsSome(elementStyles[e])
            /\ Len(Declared(e).transitions) = 2
            /\ Declared(e).transitions[1].property = "Transform"
            /\ Declared(e).transitions[2].property = "Width"
            /\ IsSome(animatedTransform[e])
            /\ DOMAIN animatedLayout[e] = {"Width"}

-----------------------------------------------------------------------------
(* The z-index specification: UpdateComputedStyle commands that differ in    *)
(* their z_index are applied, one after the other, to the nodes of a tree     *)
(* spawned with ZIndex::Local(0).                                             *)

ZValues == {Local(0), Local(1), Local(2), Global(0), Global(1)}

\* UpdateComputedStyle { entity, computed }.apply(world)
ApplyComputed(e, computed) ==
    /\ Idle
    /\ LET w == apply(World, e, computed)
       IN  /\ style' = w.style
           /\ animatedLayout' = w.animatedLayout
           /\ text' = w.text
           /\ textChanged' = w.textChanged
           /\ textStyles' = w.textStyles
           /\ transform' = w.transform
           /\ animatedTransform' = w.animatedTransform
           /\ zIndex' = w.zIndex
    /\ last' = [op |-> "apply", entity |-> e, computed |-> computed]
    /\ UNCHANGED <<palette, parent, elementStyles, stylesChanged, classes, classesChanged, focus,
                   focus_prev, hover, hover_prev, commands, ran, delta, obs, events>>

NextZ ==
    \E e \in Entities : \E z \in ZValues :
        ApplyComputed(e, [ComputedStyle_new EXCEPT !.z_index = z])

SpecZ == InitScene(SceneFocus) /\ [][NextZ]_vars

\* The z-index in effect on a node: no ZIndex component is Local(0).
EffectiveZIndex(e) == UnwrapOr(zIndex[e], Local(0))

\* C27: after any sequence of UpdateComputedStyle applications to a node, the
\* z-index in effect on it (no component is Local(0)) is the z_index of the
\* ComputedStyle applied last; applying Local(5), Local(0), Local(5) leaves
\* Local(5).
C27_ZIndexIsLastApplied ==
    last.op = "apply" => EffectiveZIndex(last.entity) = last.computed.z_index

\* The same while the node has a ZIndex component when the command is applied,
\* as a stepwise property.
ZIndexAppliedOverComponent ==
    [][\A e \in Entities :
        (last'.op = "apply" /\ last'.entity = e /\ IsSome(zIndex[e])) =>
            UnwrapOr(zIndex'[e], Local(0)) = last'.computed.z_index]_vars

====
